---- MODULE Spec2Model ----
(***************************************************************************)
(* Model of the language-practice chat application:                        *)
(*   web/app/page.js            - the browser controller (session state,   *)
(*                                user actions, the help -> post_clear     *)
(*                                chain, objective grading)                *)
(*   web/app/api/chat/route.js  - the API route (mode resolution, context  *)
(*                                building with redaction, normalisation   *)
(*                                of the model's structured output)        *)
(*                                                                         *)
(* Encoding of JavaScript values.                                          *)
(*   - A scalar (a flag, an identifier, a type name) is a string: "0" and  *)
(*     "1" are the numbers 0 and 1, "\"1\"" is the string "1", "null" is   *)
(*     null and "undefined" is undefined or an absent property.            *)
(*   - An object is a record tagged t = "obj"; where the code may meet a   *)
(*     non-object in an object's place the value is one of NullV, Undef    *)
(*     and ScalarV (some number, string or boolean).                       *)
(*   - An array is a sequence.                                             *)
(*   - A localStorage entry is absent, the empty string, a text that is    *)
(*     not JSON, or the JSON text of a value; a stored string is a Txt,    *)
(*     a stored number a record tagged t = "num", a stored array a record  *)
(*     tagged t = "arr".                                                   *)
(***************************************************************************)
EXTENDS Integers, Sequences, FiniteSets, TLC

VARIABLES
    \* ---- page.js: React state of Page() (lines 87-100)
    config, conversationMode, onboardingStep, placement, messages,
    active, attempt, pendingProposal, grade, loading,
    \* ---- page.js: the suspended async handler (its position and its closure)
    pc, frame,
    \* ---- the HTTP exchange between callApi and POST
    req, resp,
    \* ---- route.js: the locals of the last POST invocation
    parsed, effectiveMode, userContent, normalized, input,
    \* ---- the browser: the localStorage entry STORAGE_KEY
    storage

clientVars == <<config, conversationMode, onboardingStep, placement, messages,
                active, attempt, pendingProposal, grade, loading>>
handlerVars == <<pc, frame>>
netVars == <<req, resp>>
serverVars == <<parsed, effectiveMode, userContent, normalized, input>>
vars == <<clientVars, handlerVars, netVars, serverVars, storage>>

(***************************************************************************)
(* JavaScript values                                                       *)
(***************************************************************************)
N0 == "0"
N1 == "1"
Undefined == "undefined"
Null == "null"

NullV == [t |-> "null"]
Undef == [t |-> "undefined"]
ScalarV == [t |-> "scalar"]

IsObject(v) == v.t = "obj"

Modes == {"chat", "help", "post_clear"}

(***************************************************************************)
(* route.js: canonical disabled shapes                                     *)
(***************************************************************************)
disabledProposal ==
    [t |-> "obj", enabled |-> N0, proposal_id |-> Null, problem_type |-> Null,
     translation |-> NullV, fill_in_blank |-> NullV,
     multiple_choice |-> NullV, free_response |-> NullV]

disabledPoll ==
    [t |-> "obj", enabled |-> N0, poll_id |-> Null, question |-> Null,
     options |-> NullV]

\* The empty object {} that replaces a null or non-object parsed output.
EmptyOutput ==
    [t |-> "obj", response |-> Undef, clear_active |-> Undefined,
     proposal |-> Undef, poll |-> Undef]

(***************************************************************************)
(* route.js: normalizeModelOutput(parsed, { effectiveMode })               *)
(***************************************************************************)
\* lines 118-125: defaulting and coercion, common to every mode
\* variant: the enabled and clear_active tests use loose equality (== 1)
CoerceOutputLoose(p) ==
    LET Loose1(x) == x \in {N1, "\"1\"", "true"}
        out == IF IsObject(p) THEN p ELSE EmptyOutput
        prop1 == IF ~IsObject(out.proposal) THEN disabledProposal ELSE out.proposal
        poll1 == IF ~IsObject(out.poll) THEN disabledPoll ELSE out.poll
        prop2 == IF ~Loose1(prop1.enabled) THEN disabledProposal ELSE prop1
        poll2 == IF ~Loose1(poll1.enabled) THEN disabledPoll ELSE poll1
        clr == IF ~Loose1(out.clear_active) THEN N0 ELSE out.clear_active
    IN [out EXCEPT !.proposal = prop2, !.poll = poll2, !.clear_active = clr]

CoerceOutput(p) ==
    LET out == IF IsObject(p) THEN p ELSE EmptyOutput
        prop1 == IF ~IsObject(out.proposal) THEN disabledProposal ELSE out.proposal
        poll1 == IF ~IsObject(out.poll) THEN disabledPoll ELSE out.poll
        prop2 == IF prop1.enabled # N1 THEN disabledProposal ELSE prop1
        poll2 == IF poll1.enabled # N1 THEN disabledPoll ELSE poll1
        clr == IF out.clear_active # N1 THEN N0 ELSE out.clear_active
    IN [out EXCEPT !.proposal = prop2, !.poll = poll2, !.clear_active = clr]

\* variant: the poll rules run before the poll+clear rule
ResolveConflictsPollFirst(out) ==
    LET pollEnabled == out.poll.enabled = N1
        proposalEnabled == out.proposal.enabled = N1
        o2 == IF pollEnabled /\ proposalEnabled
              THEN [out EXCEPT !.proposal = disabledProposal]
              ELSE out
    IN IF pollEnabled THEN [o2 EXCEPT !.clear_active = N0] ELSE o2

\* variant: an enabled poll leaves an enabled proposal in place
ResolveConflictsKeepProposal(out) ==
    LET pollEnabled == out.poll.enabled = N1
        clearActive == out.clear_active = N1
    IN IF pollEnabled /\ clearActive
       THEN [out EXCEPT !.poll = disabledPoll]
       ELSE IF pollEnabled THEN [out EXCEPT !.clear_active = N0] ELSE out

\* lines 132-149: conflict resolution of chat and post_clear modes
ResolveConflicts(out) ==
    LET pollEnabled == out.poll.enabled = N1
        proposalEnabled == out.proposal.enabled = N1
        clearActive == out.clear_active = N1
    IN IF pollEnabled /\ clearActive
       THEN [out EXCEPT !.poll = disabledPoll]
       ELSE LET o2 == IF pollEnabled /\ proposalEnabled
                      THEN [out EXCEPT !.proposal = disabledProposal]
                      ELSE out
            IN IF pollEnabled THEN [o2 EXCEPT !.clear_active = N0] ELSE o2

\* variant: help mode takes the same path as the other modes
normalizeModelOutputNoHelp(p, mode) ==
    ResolveConflicts(CoerceOutput(p))

normalizeModelOutput(p, mode) ==
    LET out == CoerceOutput(p)
    IN IF mode = "help"
       THEN [out EXCEPT !.poll = disabledPoll]
       ELSE ResolveConflicts(out)

(***************************************************************************)
(* Text.  A string the code trims, lower-cases or tests for emptiness is a *)
(* tagged sequence of one-character strings.                               *)
(***************************************************************************)
Txt(s) == [t |-> "str", s |-> s]
IsString(v) == v.t = "str"

RECURSIVE TrimLeft(_)
TrimLeft(s) == IF s # <<>> /\ Head(s) = " " THEN TrimLeft(Tail(s)) ELSE s

RECURSIVE TrimRight(_)
TrimRight(s) ==
    IF s # <<>> /\ s[Len(s)] = " " THEN TrimRight(SubSeq(s, 1, Len(s) - 1)) ELSE s

\* variant: only the leading spaces are removed
trimStart(s) == TrimLeft(s)

\* String.prototype.trim
trim(s) == TrimRight(TrimLeft(s))

UpperLetters ==
    <<"A", "B", "C", "D", "E", "F", "G", "H", "I", "J", "K", "L", "M",
      "N", "O", "P", "Q", "R", "S", "T", "U", "V", "W", "X", "Y", "Z">>
LowerLetters ==
    <<"a", "b", "c", "d", "e", "f", "g", "h", "i", "j", "k", "l", "m",
      "n", "o", "p", "q", "r", "s", "t", "u", "v", "w", "x", "y", "z">>

LowerChar(c) ==
    IF \E i \in 1..26 : UpperLetters[i] = c
    THEN LowerLetters[CHOOSE i \in 1..26 : UpperLetters[i] = c]
    ELSE c

UpperChar(c) ==
    IF \E i \in 1..26 : LowerLetters[i] = c
    THEN UpperLetters[CHOOSE i \in 1..26 : LowerLetters[i] = c]
    ELSE c

\* String.prototype.toLowerCase, toUpperCase
toLowerCase(s) == [i \in 1..Len(s) |-> LowerChar(s[i])]
toUpperCase(s) == [i \in 1..Len(s) |-> UpperChar(s[i])]

\* String.prototype.includes
includes(s, w) == \E i \in 1..(Len(s) - Len(w) + 1) : SubSeq(s, i, i + Len(w) - 1) = w

\* JavaScript truthiness of a scalar (a number, a string, null or undefined)
Truthy(x) == x \notin {Undefined, Null, N0, "\"\"", "false"}

(***************************************************************************)
(* page.js: the persist effect (lines 266-281).  React runs it after the   *)
(* render that follows every state change, before the next event is        *)
(* handled; it does nothing until the page is hydrated.                    *)
(* JSON.stringify drops absent (undefined) properties and keeps the rest.  *)
(***************************************************************************)
\* the localStorage entry whose text parses to value
Stored(value) == [kind |-> "json", value |-> value]

\* line 280: JSON.stringify(state) leaves out the properties of the state
\* object whose value is undefined
JsonStringify(state) ==
    Stored([k \in {j \in DOMAIN state : j = "t" \/ state[j] # Undef} |-> state[k]])

\* lines 269-279: the state object that is saved (grade, loading and the
\* handlers' closures are not part of it)
Snapshot ==
    [t |-> "obj",
     nativeLanguage |-> Txt(<<config.nativeLanguage>>),
     targetLanguage |-> Txt(<<config.targetLanguage>>),
     messages |-> [t |-> "arr", items |-> messages],
     conversationMode |-> Txt(<<conversationMode>>),
     onboardingStep |-> [t |-> "num", v |-> onboardingStep],
     placement |-> [t |-> "obj", levelText |-> placement.levelText,
                    focusText |-> placement.focusText],
     active |-> active,
     attempt |-> attempt,
     pendingProposal |-> pendingProposal]

\* variant: the persist effect does not wait for hydrated
SavingUnguarded == pc # "crashed"

\* hydrated is false while the hydration effect has not run (pc = "mount"),
\* and the persist effect first sees it true in the render after that
\* (pc = "loaded"); a page whose effect threw is gone (pc = "crashed")
Saving == pc \notin {"mount", "loaded", "crashed"}

\* lines 266-281
Persist ==
    storage' = IF Saving' THEN JsonStringify(Snapshot') ELSE storage

\* lines 266-281: the persist effect of the first render runs in the commit
\* of the hydration effect, with the values of that render
PersistFirstRender ==
    storage' = IF Saving THEN JsonStringify(Snapshot) ELSE storage

(***************************************************************************)
(* Exercises the model can propose.  A proposal carries one payload field  *)
(* per problem type; the schema lets each be an object or null.            *)
(***************************************************************************)
ProblemTypes == {"translation", "fill_in_blank", "multiple_choice", "free_response"}

TRPayload == [t |-> "obj", text |-> Txt(<<"s", "o", "y">>)]
FRPayload == [t |-> "obj", prompt |-> Txt(<<"e", "s">>)]
FIBPayload ==
    [t |-> "obj",
     blanks |-> << [id |-> "b1", expected_answers |-> << <<"s", "o", "y">> >>] >>]
MCPayload ==
    [t |-> "obj", options |-> <<"a", "b">>, correct_option_ids |-> <<"a">>]

MkProposal(en, id, ptype, tr, fib, mc, fr) ==
    [t |-> "obj", enabled |-> en, proposal_id |-> id, problem_type |-> ptype,
     translation |-> tr, fill_in_blank |-> fib,
     multiple_choice |-> mc, free_response |-> fr]

PropTR == MkProposal(N1, "p_tr", "translation", TRPayload, NullV, NullV, NullV)
PropFR == MkProposal(N1, "p_fr", "free_response", NullV, NullV, NullV, FRPayload)
PropFIB == MkProposal(N1, "p_fib", "fill_in_blank", NullV, FIBPayload, NullV, NullV)
PropMC == MkProposal(N1, "p_mc", "multiple_choice", NullV, NullV, MCPayload, NullV)
\* enabled, but with a second payload beside the one problem_type names
PropTwo == MkProposal(N1, "p_two", "multiple_choice", NullV, FIBPayload, MCPayload, NullV)
\* enabled, but with no payload at all
PropNone == MkProposal(N1, "p_none", "free_response", NullV, NullV, NullV, NullV)

Poll1 ==
    [t |-> "obj", enabled |-> N1, poll_id |-> "q1", question |-> Txt(<<"e">>),
     options |-> [t |-> "arr", items |-> << [id |-> Txt(<<"s", "o", "y">>), text |-> Txt(<<"S">>)] >>]]

(***************************************************************************)
(* route.js: redactActiveForModel(active)                                  *)
(***************************************************************************)
\* delete obj[key]
Delete(obj, key) == [k \in DOMAIN obj \ {key} |-> obj[k]]

redactActiveForModel(a) ==
    IF ~IsObject(a) THEN NullV
    ELSE
      LET c1 == IF a.problem_type = "fill_in_blank" /\ IsObject(a.fill_in_blank)
                   /\ "blanks" \in DOMAIN a.fill_in_blank
                THEN [a EXCEPT !.fill_in_blank.blanks =
                        [i \in 1..Len(@) |-> Delete(@[i], "expected_answers")]]
                ELSE a
      IN IF c1.problem_type = "multiple_choice" /\ IsObject(c1.multiple_choice)
         THEN [c1 EXCEPT !.multiple_choice = Delete(@, "correct_option_ids")]
         ELSE c1

(***************************************************************************)
(* The HTTP exchange.  callApi serialises the request body with            *)
(* JSON.stringify, which drops the properties whose value is undefined;    *)
(* POST reads every property with a default.                               *)
(***************************************************************************)
NoReq == [t |-> "none"]
NoResp == [t |-> "none"]
NoContent == [kind |-> "none"]

ErrorText == Txt(<<"E">>)

\* body?.x ?? null
OrNull(v) == IF v.t \in {"null", "undefined"} THEN NullV ELSE v

\* route.js line 163
RequestedMode(body) ==
    IF body.mode = "help" THEN "help"
    ELSE IF body.mode = "post_clear" THEN "post_clear" ELSE "chat"

\* route.js line 176
BodyActive(body) == IF IsObject(body.active) THEN body.active ELSE NullV

\* route.js line 191
EffectiveMode(mode, a) ==
    IF mode # "post_clear" /\ IsObject(a) /\ a.enabled = N1 /\ Truthy(a.problem_type)
    THEN "help" ELSE mode
\* variant: a user text of spaces only counts as text
HasUserTextNoTrim(body) == IsString(body.userText) /\ Len(body.userText.s) > 0

\* route.js lines 188-189
HasUserText(body) == IsString(body.userText) /\ Len(trim(body.userText.s)) > 0

\* route.js lines 193-223: the user content of the model call, or the reason
\* the request is rejected before the model is called
BuildUserContent(body) ==
    LET a == BodyActive(body)
        em == EffectiveMode(RequestedMode(body), a)
    IN CASE em = "post_clear" ->
              [kind |-> "post_clear",
               clearedJson |-> OrNull(body.cleared),
               clearedOutcomeJson |-> OrNull(body.clearedOutcome)]
         [] em = "help" ->
              IF ~IsObject(a) \/ a.enabled # N1 \/ ~Truthy(a.problem_type)
              THEN [kind |-> "rejected", status |-> 400]
              ELSE IF ~HasUserText(body)
              THEN [kind |-> "rejected", status |-> 400]
              ELSE [kind |-> "help",
                    userText |-> body.userText,
                    activeContextJson |-> redactActiveForModel(a),
                    attemptJson |-> OrNull(body.attempt),
                    helpContextJson |-> [problem |-> redactActiveForModel(a)]]
         [] OTHER ->
              IF ~HasUserText(body)
              THEN [kind |-> "rejected", status |-> 400]
              ELSE [kind |-> "chat", userText |-> body.userText]

\* the value of a property the object may lack
Prop(obj, key) == IF key \in DOMAIN obj THEN obj[key] ELSE Undef

\* route.js lines 170-174: the history taken from the body's messages.  An
\* entry of the array is a message object or a value that is no object
\* (tagged t).
IsMessageObject(m) == "t" \notin DOMAIN m

\* variant: the messages of the body are passed on as they are
HistoryUnfiltered(body) == body.messages

History(body) ==
    LET objects == SelectSeq(body.messages, IsMessageObject)
        pairs == [i \in 1..Len(objects) |->
                    [role |-> IF "role" \in DOMAIN objects[i]
                              THEN objects[i].role ELSE Undefined,
                     content |-> Prop(objects[i], "content")]]
        kept(m) == m.role \in {"user", "assistant"} /\ IsString(m.content)
    IN SelectSeq(pairs, kept)

NoInput == <<>>

\* route.js lines 184 and 229: the input of the model call is the system
\* prompt rendered from the configuration, the history and the user content
ModelInput(body, uc) ==
    << [role |-> "system", content |-> [kind |-> "system", config |-> body.config]] >>
    \o History(body)
    \o << [role |-> "user", content |-> uc] >>

\* What the model may return as parsed output in a session.
ModelOutputs ==
    { [t |-> "obj", response |-> Txt(<<"r">>), clear_active |-> c, proposal |-> p, poll |-> q] :
        c \in {N0, N1},
        p \in {disabledProposal, PropFR, PropFIB, PropTwo},
        q \in {disabledPoll, Poll1} }
    \cup {EmptyOutput}

\* route.js lines 152-255: POST.  The model call either fails (incomplete
\* response, no output text, unparsable text, a thrown error: status 500)
\* or returns a parsed output, which is normalised and returned.
POST ==
    /\ req.t = "req"
    /\ resp.t = "none"
    /\ LET body == req
           em == EffectiveMode(RequestedMode(body), BodyActive(body))
           uc == BuildUserContent(body)
       IN /\ effectiveMode' = em
          /\ IF uc.kind = "rejected"
             THEN /\ userContent' = NoContent
                  /\ input' = NoInput
                  /\ parsed' = Undef
                  /\ normalized' = Undef
                  /\ resp' = [t |-> "resp", ok |-> FALSE, json |-> Undef]
             ELSE /\ userContent' = uc
                  /\ input' = ModelInput(body, uc)
                  /\ \/ /\ parsed' = Undef
                        /\ normalized' = Undef
                        /\ resp' = [t |-> "resp", ok |-> FALSE, json |-> Undef]
                     \/ \E out \in ModelOutputs :
                          /\ parsed' = out
                          /\ normalized' = normalizeModelOutput(out, em)
                          /\ resp' = [t |-> "resp", ok |-> TRUE,
                                      json |-> normalizeModelOutput(out, em)]
    /\ UNCHANGED <<req, clientVars, handlerVars>>
    /\ Persist

(***************************************************************************)
(* page.js: pure helpers of the controller                                 *)
(***************************************************************************)
Msg(role, content) ==
    [role |-> role, content |-> content, proposal |-> Undef, poll |-> Undef,
     help_offer |-> Undef, poll_answer |-> Undef, help_offer_accepted |-> Undefined]

\* the assistant message built from a result (lines 411-413, 506-508, 541-543)
AssistantMsg(result) ==
    [Msg("assistant", result.response) EXCEPT
        !.proposal = IF result.proposal.enabled = N1 THEN result.proposal ELSE Undef,
        !.poll = IF result.poll.enabled = N1 THEN result.poll ELSE Undef]
\* variant: the answer takes the place of the last message of the history
WithResponseOverLast(msgs, result) ==
    IF IsString(result.response)
    THEN Append(SubSeq(msgs, 1, Len(msgs) - 1), AssistantMsg(result))
    ELSE msgs

\* if (typeof result?.response === "string") setMessages(prev => [...prev, msg])
WithResponse(msgs, result) ==
    IF IsString(result.response) THEN Append(msgs, AssistantMsg(result)) ELSE msgs

ErrorMsg == Msg("assistant", ErrorText)

\* lines 153-166: the three scripted opening messages
ScriptedMessages ==
    << Msg("assistant", Txt(<<"i", "1", config.targetLanguage>>)),
       Msg("assistant", Txt(<<"i", "2">>)),
       Msg("assistant", Txt(<<"q", "1", config.targetLanguage>>)) >>

\* lines 473-476: the second scripted question
SecondQuestion == Msg("assistant", Txt(<<"q", "2">>))

\* lines 302-313
makeActiveFromProposal(proposal) ==
    IF ~IsObject(proposal) \/ proposal.enabled # N1 \/ ~Truthy(proposal.problem_type)
    THEN NullV
    ELSE [t |-> "obj", enabled |-> N1,
          exercise_id |-> IF proposal.proposal_id = Undefined THEN Null
                          ELSE proposal.proposal_id,
          problem_type |-> proposal.problem_type,
          translation |-> OrNull(proposal.translation),
          fill_in_blank |-> OrNull(proposal.fill_in_blank),
          multiple_choice |-> OrNull(proposal.multiple_choice),
          free_response |-> OrNull(proposal.free_response)]

HasBlanks(a) == IsObject(a.fill_in_blank) /\ "blanks" \in DOMAIN a.fill_in_blank

\* variant: only the objective types are seeded
defaultAttemptForActiveObjectiveOnly(nextActive) ==
    IF nextActive.problem_type = "fill_in_blank" /\ HasBlanks(nextActive)
    THEN [t |-> "obj",
          map |-> [k \in {nextActive.fill_in_blank.blanks[i].id :
                            i \in 1..Len(nextActive.fill_in_blank.blanks)} |-> Txt(<<>>)]]
    ELSE IF nextActive.problem_type = "multiple_choice"
    THEN [t |-> "arr", items |-> <<>>]
    ELSE NullV

\* lines 315-328
defaultAttemptForActive(nextActive) ==
    IF ~IsObject(nextActive) \/ nextActive.enabled # N1
       \/ ~Truthy(nextActive.problem_type)
    THEN NullV
    ELSE IF nextActive.problem_type = "fill_in_blank" /\ HasBlanks(nextActive)
    THEN LET bs == nextActive.fill_in_blank.blanks
             ids == {bs[i].id : i \in {j \in 1..Len(bs) : Truthy(bs[j].id)}}
         IN [t |-> "obj", map |-> [k \in ids |-> Txt(<<>>)]]
    ELSE IF nextActive.problem_type = "multiple_choice"
    THEN [t |-> "arr", items |-> <<>>]
    ELSE Txt(<<>>)

\* variant: the text is lower-cased but not trimmed
normalizeTextNoTrim(s) == toLowerCase(s)

\* lines 330-334
normalizeText(s) == toLowerCase(trim(s))

\* nextAttempt?.[b.id] ?? ""
AttemptAt(att, id) ==
    IF att.t = "obj" /\ id \in DOMAIN att.map THEN att.map[id].s ELSE <<>>

Items(seq) == {seq[i] : i \in 1..Len(seq)}

\* variant: the lists are compared without de-duplication
SetEqNoDedup(a, b) ==
    /\ Len(a) = Len(b)
    /\ \A x \in Items(b) : x \in Items(a)

\* lines 358-365: setEq over the de-duplicated, sorted lists
SetEq(a, b) ==
    /\ Cardinality(Items(a)) = Cardinality(Items(b))
    /\ \A x \in Items(b) : x \in Items(a)

\* lines 336-370
gradeObjective(nextActive, nextAttempt) ==
    IF ~IsObject(nextActive) \/ nextActive.enabled # N1
       \/ ~Truthy(nextActive.problem_type)
    THEN NullV
    ELSE IF nextActive.problem_type = "fill_in_blank" /\ HasBlanks(nextActive)
    THEN LET bs == nextActive.fill_in_blank.blanks
             expected(b) == IF "expected_answers" \in DOMAIN b
                            THEN b.expected_answers ELSE <<>>
             ok(b) == \E i \in 1..Len(expected(b)) :
                         normalizeText(expected(b)[i])
                            = normalizeText(AttemptAt(nextAttempt, b.id))
         IN [t |-> "obj", kind |-> "fill_in_blank",
             allCorrect |-> \A i \in 1..Len(bs) : ok(bs[i]),
             results |-> [i \in 1..Len(bs) |-> [id |-> bs[i].id, correct |-> ok(bs[i])]]]
    ELSE IF nextActive.problem_type = "multiple_choice"
            /\ IsObject(nextActive.multiple_choice)
    THEN LET selected == IF nextAttempt.t = "arr" THEN nextAttempt.items ELSE <<>>
             mc == nextActive.multiple_choice
             correct == IF "correct_option_ids" \in DOMAIN mc
                        THEN mc.correct_option_ids ELSE <<>>
         IN [t |-> "obj", kind |-> "multiple_choice",
             allCorrect |-> SetEq(selected, correct)]
    ELSE NullV

\* variant: the keywords are looked for before the codes
inferApproxLevelKeywordsFirst(levelText) ==
    LET t == toLowerCase(levelText)
        code(i) == /\ i + 1 <= Len(t)
                   /\ t[i] \in {"a", "b", "c"} /\ t[i + 1] \in {"1", "2"}
        hits == {i \in 1..Len(t) : code(i)}
        first == CHOOSE i \in hits : \A j \in hits : i <= j
    IN IF includes(t, <<"b", "e", "g", "i", "n", "n", "e", "r">>) THEN <<"A", "1">>
       ELSE IF includes(t, <<"i", "n", "t", "e", "r", "m", "e", "d", "i", "a", "t", "e">>)
            THEN <<"B", "1">>
       ELSE IF includes(t, <<"a", "d", "v", "a", "n", "c", "e", "d">>) THEN <<"C", "1">>
       ELSE IF hits # {} THEN toUpperCase(SubSeq(t, first, first + 1))
       ELSE <<"B", "1">>

\* lines 169-179.  \w of the regular expression: a letter, a digit or
\* the underscore; \b lies between a \w character and anything else
Digits == <<"0", "1", "2", "3", "4", "5", "6", "7", "8", "9">>

IsWordChar(c) ==
    \/ \E i \in 1..26 : c \in {UpperLetters[i], LowerLetters[i]}
    \/ \E i \in 1..10 : c = Digits[i]
    \/ c = "_"

CodeAt(t, i) ==
    /\ i + 1 <= Len(t)
    /\ t[i] \in {"a", "b", "c"}
    /\ t[i + 1] \in {"1", "2"}
    /\ (i = 1 \/ ~IsWordChar(t[i - 1]))
    /\ (i + 2 > Len(t) \/ ~IsWordChar(t[i + 2]))

inferApproxLevel(levelText) ==
    LET t == toLowerCase(levelText)
        hits == {i \in 1..Len(t) : CodeAt(t, i)}
        first == CHOOSE i \in hits : \A j \in hits : i <= j
    IN IF hits # {} THEN toUpperCase(SubSeq(t, first, first + 1))
       ELSE IF includes(t, <<"b", "e", "g", "i", "n", "n", "e", "r">>) THEN <<"A", "1">>
       ELSE IF includes(t, <<"i", "n", "t", "e", "r", "m", "e", "d", "i", "a", "t", "e">>)
            THEN <<"B", "1">>
       ELSE IF includes(t, <<"a", "d", "v", "a", "n", "c", "e", "d">>) THEN <<"C", "1">>
       ELSE <<"B", "1">>

\* variant: the request carries the reported level and the focus only
PlacementRequestNoLevel(reportedLevel, cleaned) ==
    Txt(<<"level", ":">> \o reportedLevel \o <<"focus", ":">> \o cleaned)

\* lines 489-497: the placement request text; the fixed lines of the
\* template are the separators
PlacementRequest(reportedLevel, cleaned) ==
    Txt(<<"level", ":">> \o reportedLevel \o <<"approx", ":">>
        \o inferApproxLevel(reportedLevel) \o <<"focus", ":">> \o cleaned)

(***************************************************************************)
(* page.js: callApi (lines 372-395).  The body is built from the values    *)
(* the calling handler closed over.                                        *)
(***************************************************************************)
callApi(mode, userText, msgs, a, att, cleared, clearedOutcome) ==
    [t |-> "req", mode |-> mode, userText |-> userText, messages |-> msgs,
     config |-> config, active |-> a, attempt |-> att, cleared |-> cleared,
     clearedOutcome |-> clearedOutcome]

Outcome(kind) == [t |-> "obj", kind |-> kind]

NoFrame ==
    [active |-> NullV, attempt |-> NullV, messages |-> <<>>,
     nextMessages |-> <<>>, caller |-> "none", result |-> Undef]

\* is the active exercise one the request mode and the exercise panel accept
ActiveUsable(a) == IsObject(a) /\ a.enabled = N1 /\ Truthy(a.problem_type)

\* variant: the client always asks for chat mode
RequestModeChat(a) == "chat"

\* line 533
RequestMode(a) == IF ActiveUsable(a) THEN "help" ELSE "chat"

ServerIdle ==
    /\ parsed' = Undef
    /\ effectiveMode' = "none"
    /\ userContent' = NoContent
    /\ normalized' = Undef
    /\ input' = NoInput
\* variant: the reset leaves conversationMode as it is
startOnboardingKeepsMode ==
    /\ conversationMode' = conversationMode
    /\ onboardingStep' = 0
    /\ placement' = [levelText |-> Txt(<<>>), focusText |-> Txt(<<>>)]
    /\ active' = NullV
    /\ attempt' = NullV
    /\ pendingProposal' = NullV
    /\ grade' = NullV
    /\ messages' = ScriptedMessages

\* variant: New conversation keeps the pending proposal
startOnboardingKeepsPending ==
    /\ conversationMode' = "onboarding"
    /\ onboardingStep' = 0
    /\ placement' = [levelText |-> Txt(<<>>), focusText |-> Txt(<<>>)]
    /\ active' = NullV
    /\ attempt' = NullV
    /\ pendingProposal' = pendingProposal
    /\ grade' = NullV
    /\ messages' = ScriptedMessages

(***************************************************************************)
(* page.js: startOnboarding (lines 139-167)                                *)
(***************************************************************************)
startOnboarding ==
    /\ conversationMode' = "onboarding"
    /\ onboardingStep' = 0
    /\ placement' = [levelText |-> Txt(<<>>), focusText |-> Txt(<<>>)]
    /\ active' = NullV
    /\ attempt' = NullV
    /\ pendingProposal' = NullV
    /\ grade' = NullV
    /\ messages' = ScriptedMessages

\* variant: the follow-up call is made without the cleared exercise
triggerPostClearNoRecord(cleared, clearedOutcome, msgs, a, att, caller, result) ==
    /\ loading' = TRUE
    /\ req' = [callApi("post_clear", Txt(<<"post_clear">>), msgs, a, att,
                        NullV, clearedOutcome)
                EXCEPT !.config = IF caller = "none" THEN config ELSE req.config]
    /\ resp' = NoResp
    /\ pc' = "postClear"
    /\ frame' = [NoFrame EXCEPT !.active = a, !.attempt = att,
                                !.caller = caller, !.result = result]

(***************************************************************************)
(* page.js: triggerPostClear (lines 397-427), up to its await.  The call   *)
(* is made with the caller's closure: active and attempt are the values    *)
(* the calling handler saw, and messages is messagesOverride or, without   *)
(* one, the caller's messages.                                             *)
(***************************************************************************)
triggerPostClear(cleared, clearedOutcome, msgs, a, att, caller, result) ==
    /\ loading' = TRUE
    /\ req' = [callApi("post_clear", Txt(<<"post_clear">>), msgs, a, att,
                        cleared, clearedOutcome)
                EXCEPT !.config = IF caller = "none" THEN config ELSE req.config]
    /\ resp' = NoResp
    /\ pc' = "postClear"
    /\ frame' = [NoFrame EXCEPT !.active = a, !.attempt = att,
                                !.caller = caller, !.result = result]
\* variant: without the finally block, a failed post_clear call leaves
\* loading set
PostClearResumeNoFinally ==
    /\ pc = "postClear"
    /\ resp.t = "resp"
    /\ messages' = IF resp.ok THEN WithResponse(messages, resp.json) ELSE messages
    /\ pendingProposal' =
          IF resp.ok /\ resp.json.proposal.enabled = N1
          THEN resp.json.proposal ELSE pendingProposal
    /\ loading' = ~resp.ok
    /\ pc' = "idle"
    /\ frame' = NoFrame
    /\ req' = NoReq
    /\ resp' = NoResp
    /\ ServerIdle
    /\ UNCHANGED <<conversationMode, onboardingStep, placement, config, active, attempt,
                   grade>>
    /\ Persist

\* variant: a post_clear answer with clear_active = 1 starts another
\* post_clear call
PostClearResumeActsOnClear ==
    /\ pc = "postClear"
    /\ resp.t = "resp"
    /\ IF resp.ok /\ resp.json.clear_active = N1
       THEN /\ messages' = WithResponse(messages, resp.json)
            /\ triggerPostClear(req.cleared, Outcome("model_clear"),
                                WithResponse(messages, resp.json),
                                frame.active, frame.attempt, "none", Undef)
            /\ UNCHANGED pendingProposal
       ELSE /\ messages' = IF resp.ok THEN WithResponse(messages, resp.json)
                           ELSE Append(messages, ErrorMsg)
            /\ UNCHANGED pendingProposal
            /\ loading' = FALSE
            /\ pc' = "idle"
            /\ frame' = NoFrame
            /\ req' = NoReq
            /\ resp' = NoResp
    /\ ServerIdle
    /\ UNCHANGED <<conversationMode, onboardingStep, placement, config, active, attempt,
                   grade>>
    /\ Persist

\* lines 409-426 and the tail of the awaiting caller (lines 559-567 or
\* 605-613): the response of the post_clear call arrives
PostClearResume ==
    /\ pc = "postClear"
    /\ resp.t = "resp"
    /\ LET result == resp.json
           own == IF resp.ok /\ result.proposal.enabled = N1
                  THEN result.proposal ELSE pendingProposal
       IN /\ messages' = IF resp.ok THEN WithResponse(messages, result)
                         ELSE Append(messages, ErrorMsg)
          /\ pendingProposal' =
                IF frame.caller # "none" /\ frame.result.proposal.enabled = N1
                THEN frame.result.proposal ELSE own
    /\ loading' = FALSE
    /\ pc' = "idle"
    /\ frame' = NoFrame
    /\ req' = NoReq
    /\ resp' = NoResp
    /\ ServerIdle
    /\ UNCHANGED <<conversationMode, onboardingStep, placement, config, active, attempt,
                   grade>>
    /\ Persist

(***************************************************************************)
(* page.js: sendText (lines 458-568)                                       *)
(***************************************************************************)
\* `shown` is the messages state left by the caller's own updates, which
\* setMessages(nextMessages) replaces: nextMessages is built from the
\* messages the handler closed over.
sendText(text, shown) ==
    LET cleaned == trim(text.s)
        nextMessages == Append(messages, Msg("user", Txt(cleaned)))
        requestMode == RequestMode(active)
    IN
    IF cleaned = <<>> \/ loading
    THEN /\ messages' = shown
         /\ UNCHANGED <<conversationMode, onboardingStep, placement, config, active, attempt,
                        pendingProposal, grade, loading, handlerVars, netVars,
                        serverVars>>
    ELSE IF conversationMode = "onboarding" /\ onboardingStep = 0
    THEN /\ placement' = [placement EXCEPT !.levelText = Txt(cleaned)]
         /\ messages' = Append(nextMessages, SecondQuestion)
         /\ onboardingStep' = 1
         /\ UNCHANGED <<config, conversationMode, active, attempt, pendingProposal, grade,
                        loading, handlerVars, netVars, serverVars>>
    ELSE IF conversationMode = "onboarding" /\ onboardingStep = 1
    THEN /\ placement' = [placement EXCEPT !.focusText = Txt(cleaned)]
         /\ messages' = nextMessages
         /\ loading' = TRUE
         /\ req' = callApi("chat", PlacementRequest(placement.levelText.s, cleaned),
                           nextMessages, active, attempt, Undef, Undef)
         /\ resp' = NoResp
         /\ pc' = "placement"
         /\ frame' = [NoFrame EXCEPT !.active = active, !.attempt = attempt,
                                     !.nextMessages = nextMessages]
         /\ UNCHANGED <<config, conversationMode, onboardingStep, active, attempt,
                        pendingProposal, grade, serverVars>>
    ELSE /\ messages' = nextMessages
         /\ loading' = TRUE
         /\ req' = callApi(requestMode, Txt(cleaned), nextMessages, active, attempt,
                           Undef, Undef)
         /\ resp' = NoResp
         /\ pc' = "sendText"
         /\ frame' = [NoFrame EXCEPT !.active = active, !.attempt = attempt,
                                     !.nextMessages = nextMessages]
         /\ UNCHANGED <<conversationMode, onboardingStep, placement, config, active, attempt,
                        pendingProposal, grade, serverVars>>

\* variant: the placement response's proposal is started without the user
PlacementResumeAutoStart ==
    /\ pc = "placement"
    /\ resp.t = "resp"
    /\ LET result == resp.json
       IN IF resp.ok
          THEN /\ conversationMode' = "chat"
               /\ onboardingStep' = 2
               /\ messages' = WithResponse(messages, result)
               /\ pendingProposal' = pendingProposal
               /\ IF result.proposal.enabled = N1
                  THEN /\ active' = makeActiveFromProposal(result.proposal)
                       /\ attempt' = defaultAttemptForActive(active')
                       /\ grade' = NullV
                  ELSE UNCHANGED <<active, attempt, grade>>
          ELSE /\ messages' = Append(messages, ErrorMsg)
               /\ UNCHANGED <<conversationMode, onboardingStep, pendingProposal,
                              active, attempt, grade>>
    /\ loading' = FALSE
    /\ pc' = "idle"
    /\ frame' = NoFrame
    /\ req' = NoReq
    /\ resp' = NoResp
    /\ ServerIdle
    /\ UNCHANGED <<placement, config>>
    /\ Persist

\* lines 499-527: the response of the placement call arrives
PlacementResume ==
    /\ pc = "placement"
    /\ resp.t = "resp"
    /\ LET result == resp.json
       IN IF resp.ok
          THEN /\ conversationMode' = "chat"
               /\ onboardingStep' = 2
               /\ messages' = WithResponse(messages, result)
               /\ pendingProposal' = IF result.proposal.enabled = N1
                                     THEN result.proposal ELSE pendingProposal
               /\ IF result.clear_active = N1
                  THEN active' = NullV /\ attempt' = NullV /\ grade' = NullV
                  ELSE UNCHANGED <<active, attempt, grade>>
          ELSE /\ messages' = Append(messages, ErrorMsg)
               /\ UNCHANGED <<conversationMode, onboardingStep, pendingProposal,
                              active, attempt, grade>>
    /\ loading' = FALSE
    /\ pc' = "idle"
    /\ frame' = NoFrame
    /\ req' = NoReq
    /\ resp' = NoResp
    /\ ServerIdle
    /\ UNCHANGED <<placement, config>>
    /\ Persist
\* variant: a response with clear_active=1 starts the clearing follow-up
\* whether or not an exercise is active
SendTextResumeClearsAlways ==
    /\ pc = "sendText"
    /\ resp.t = "resp"
    /\ LET result == resp.json
       IN IF ~resp.ok
          THEN /\ messages' = Append(messages, ErrorMsg)
               /\ loading' = FALSE
               /\ pc' = "idle"
               /\ frame' = NoFrame
               /\ req' = NoReq
               /\ resp' = NoResp
               /\ UNCHANGED <<active, attempt, grade, pendingProposal>>
          ELSE IF result.clear_active = N1
          THEN /\ messages' = WithResponse(messages, result)
               /\ active' = NullV
               /\ attempt' = NullV
               /\ grade' = NullV
               /\ triggerPostClear(frame.active, Outcome("model_clear"),
                     Append(frame.nextMessages, Msg("assistant", result.response)),
                     frame.active, frame.attempt, "sendText", result)
               /\ UNCHANGED pendingProposal
          ELSE /\ messages' = WithResponse(messages, result)
               /\ pendingProposal' = IF result.proposal.enabled = N1
                                     THEN result.proposal ELSE pendingProposal
               /\ loading' = FALSE
               /\ pc' = "idle"
               /\ frame' = NoFrame
               /\ req' = NoReq
               /\ resp' = NoResp
               /\ UNCHANGED <<active, attempt, grade>>
    /\ ServerIdle
    /\ UNCHANGED <<conversationMode, onboardingStep, placement, config>>
    /\ Persist
\* variant: a failed chat or help call drops the active exercise
SendTextResumeFailureClears ==
    /\ pc = "sendText"
    /\ resp.t = "resp"
    /\ LET result == resp.json
       IN IF ~resp.ok
          THEN /\ messages' = Append(messages, ErrorMsg)
               /\ loading' = FALSE
               /\ pc' = "idle"
               /\ frame' = NoFrame
               /\ req' = NoReq
               /\ resp' = NoResp
               /\ active' = NullV
               /\ attempt' = NullV
               /\ UNCHANGED <<grade, pendingProposal>>
          ELSE IF result.clear_active = N1 /\ IsObject(frame.active)
                  /\ frame.active.enabled = N1
          THEN /\ messages' = WithResponse(messages, result)
               /\ active' = NullV
               /\ attempt' = NullV
               /\ grade' = NullV
               /\ triggerPostClear(frame.active, Outcome("model_clear"),
                     Append(frame.nextMessages, Msg("assistant", result.response)),
                     frame.active, frame.attempt, "sendText", result)
               /\ UNCHANGED pendingProposal
          ELSE /\ messages' = WithResponse(messages, result)
               /\ pendingProposal' = IF result.proposal.enabled = N1
                                     THEN result.proposal ELSE pendingProposal
               /\ loading' = FALSE
               /\ pc' = "idle"
               /\ frame' = NoFrame
               /\ req' = NoReq
               /\ resp' = NoResp
               /\ UNCHANGED <<active, attempt, grade>>
    /\ ServerIdle
    /\ UNCHANGED <<conversationMode, onboardingStep, placement, config>>
    /\ Persist

\* lines 537-567: the response of the chat or help call arrives
SendTextResume ==
    /\ pc = "sendText"
    /\ resp.t = "resp"
    /\ LET result == resp.json
       IN IF ~resp.ok
          THEN /\ messages' = Append(messages, ErrorMsg)
               /\ loading' = FALSE
               /\ pc' = "idle"
               /\ frame' = NoFrame
               /\ req' = NoReq
               /\ resp' = NoResp
               /\ UNCHANGED <<active, attempt, grade, pendingProposal>>
          ELSE IF result.clear_active = N1 /\ IsObject(frame.active)
                  /\ frame.active.enabled = N1
          THEN /\ messages' = WithResponse(messages, result)
               /\ active' = NullV
               /\ attempt' = NullV
               /\ grade' = NullV
               /\ triggerPostClear(frame.active, Outcome("model_clear"),
                     Append(frame.nextMessages, Msg("assistant", result.response)),
                     frame.active, frame.attempt, "sendText", result)
               /\ UNCHANGED pendingProposal
          ELSE /\ messages' = WithResponse(messages, result)
               /\ pendingProposal' = IF result.proposal.enabled = N1
                                     THEN result.proposal ELSE pendingProposal
               /\ loading' = FALSE
               /\ pc' = "idle"
               /\ frame' = NoFrame
               /\ req' = NoReq
               /\ resp' = NoResp
               /\ UNCHANGED <<active, attempt, grade>>
    /\ ServerIdle
    /\ UNCHANGED <<conversationMode, onboardingStep, placement, config>>
    /\ Persist

(***************************************************************************)
(* Bounds of the explored sessions                                         *)
(***************************************************************************)
\* no new turn is started once the history holds this many messages
MaxMsgs == 9

\* what the user types into the message box, the blanks and the text area
TypedTexts == {Txt(<<"e", "s">>), Txt(<<" ">>)}
BlankInputs == {<<" ", "S", "o", "y">>, <<"e", "s">>}
AttemptInputs == {<<"e", "s">>}

CanStartTurn == Len(messages) < MaxMsgs

(***************************************************************************)
(* page.js: the user's actions                                             *)
(***************************************************************************)
\* lines 429-434: onSend with inputText = text
Send(text) ==
    /\ CanStartTurn
    /\ IF trim(text.s) = <<>> \/ loading
       THEN UNCHANGED vars
       ELSE sendText(Txt(trim(text.s)), messages)
    /\ Persist

\* the Send button, with one of the texts typed in the explored sessions
onSend == \E text \in TypedTexts : Send(text)

\* lines 436-444
markPollAnswered(idx, optionId) ==
    [i \in 1..Len(messages) |->
        IF i # idx THEN messages[i]
        ELSE IF ~IsObject(messages[i].poll) \/ messages[i].poll.enabled # N1
        THEN messages[i]
        ELSE [messages[i] EXCEPT !.poll_answer = [t |-> "obj", option_id |-> optionId]]]

\* /^[a-z0-9_\-]{1,32}$/i
IdLooksGood(id) ==
    /\ Len(id) \in 1..32
    /\ \A i \in 1..Len(id) : IsWordChar(id[i]) \/ id[i] = "-"

\* lines 446-456; the option buttons of an answered poll are disabled
onPollOption ==
    \E idx \in 1..Len(messages) :
        /\ CanStartTurn
        /\ messages[idx].role = "assistant"
        /\ IsObject(messages[idx].poll)
        /\ messages[idx].poll.enabled = N1
        /\ ~loading
        /\ messages[idx].poll_answer = Undef
        /\ \E k \in 1..Len(messages[idx].poll.options.items) :
             LET option == messages[idx].poll.options.items[k]
                 reply == IF IdLooksGood(option.id.s) THEN option.id ELSE option.text
             IN sendText(reply, markPollAnswered(idx, option.id))
        /\ Persist

\* lines 671-682; the Yes button of an accepted offer is disabled
onAcceptHelpOffer ==
    \E idx \in 1..Len(messages) :
        /\ CanStartTurn
        /\ messages[idx].role = "assistant"
        /\ IsObject(messages[idx].help_offer)
        /\ messages[idx].help_offer.enabled = N1
        /\ ~loading
        /\ messages[idx].help_offer_accepted # N1
        /\ sendText(Txt(<<"Y", "e", "s">>),
                    [messages EXCEPT ![idx].help_offer_accepted = N1])
        /\ Persist

\* variant: New conversation is not refused while a call is in flight
onNewConversationAnytime ==
    /\ startOnboarding
    /\ UNCHANGED <<config, loading, handlerVars, netVars, serverVars>>
    /\ Persist

\* lines 616-619
onNewConversation ==
    IF loading THEN UNCHANGED vars
    ELSE /\ startOnboarding
         /\ UNCHANGED <<config, loading, handlerVars, netVars, serverVars>>
         /\ Persist

\* the proposals the chat shows a Start button for (lines 761-776)
ShownProposals ==
    {messages[i].proposal : i \in {j \in 1..Len(messages) :
        messages[j].role = "assistant" /\ IsObject(messages[j].proposal)
        /\ messages[j].proposal.enabled = N1}}
\* variant: replacing an active exercise announces it with a post_clear call
StartProposalAnnounces(proposal) ==
    LET nextActive == makeActiveFromProposal(proposal)
    IN IF loading \/ nextActive = NullV
       THEN UNCHANGED vars
       ELSE /\ active' = nextActive
            /\ attempt' = defaultAttemptForActive(nextActive)
            /\ grade' = NullV
            /\ pendingProposal' =
                  IF Truthy(proposal.proposal_id) /\ IsObject(pendingProposal)
                     /\ pendingProposal.proposal_id = proposal.proposal_id
                  THEN NullV ELSE pendingProposal
            /\ IF ActiveUsable(active)
               THEN triggerPostClear(active, Outcome("user_cleared"), messages,
                                     active, attempt, "none", Undef)
               ELSE UNCHANGED <<loading, handlerVars, netVars>>
            /\ UNCHANGED <<conversationMode, onboardingStep, placement, config, messages,
                           serverVars>>
            /\ Persist

\* variant: starting a proposal always drops the pending proposal
StartProposalDropsPending(proposal) ==
    LET nextActive == makeActiveFromProposal(proposal)
    IN IF loading \/ nextActive = NullV
       THEN UNCHANGED vars
       ELSE /\ active' = nextActive
            /\ attempt' = defaultAttemptForActive(nextActive)
            /\ grade' = NullV
            /\ pendingProposal' = NullV
            /\ UNCHANGED <<conversationMode, onboardingStep, placement, config, messages,
                           loading, handlerVars, netVars, serverVars>>
            /\ Persist

\* lines 621-631: onStartProposal(proposal)
StartProposal(proposal) ==
    LET nextActive == makeActiveFromProposal(proposal)
    IN IF loading \/ nextActive = NullV
       THEN UNCHANGED vars
       ELSE /\ active' = nextActive
            /\ attempt' = defaultAttemptForActive(nextActive)
            /\ grade' = NullV
            /\ pendingProposal' =
                  IF Truthy(proposal.proposal_id) /\ IsObject(pendingProposal)
                     /\ pendingProposal.proposal_id = proposal.proposal_id
                  THEN NullV ELSE pendingProposal
            /\ UNCHANGED <<conversationMode, onboardingStep, placement, config, messages,
                           loading, handlerVars, netVars, serverVars>>
            /\ Persist

\* the Start exercise button of a proposal shown in the chat
onStartProposal ==
    \E proposal \in ShownProposals : StartProposal(proposal)

\* variant: Clear empties the exercise state and makes no follow-up call
onClearActiveSilent ==
    /\ ActiveUsable(active)
    /\ CanStartTurn
    /\ IF loading
       THEN UNCHANGED vars
       ELSE /\ active' = NullV
            /\ attempt' = NullV
            /\ grade' = NullV
            /\ UNCHANGED <<conversationMode, onboardingStep, placement, config, messages,
                           pendingProposal, loading, handlerVars, netVars,
                           serverVars>>
    /\ Persist

\* lines 633-642; the Clear button is part of the exercise panel
onClearActive ==
    /\ ActiveUsable(active)
    /\ CanStartTurn
    /\ IF loading
       THEN UNCHANGED vars
       ELSE /\ active' = NullV
            /\ attempt' = NullV
            /\ grade' = NullV
            /\ triggerPostClear(active, Outcome("user_cleared"), messages,
                                active, attempt, "none", Undef)
            /\ ServerIdle
            /\ UNCHANGED <<conversationMode, onboardingStep, placement, config, messages,
                           pendingProposal>>
    /\ Persist
\* variant: every answer that is not fully correct adds a help offer
WithHelpOfferAlways(msgs, a) ==
    Append(msgs, [Msg("assistant", Txt(<<"h", "e", "l", "p", "?">>)) EXCEPT
             !.help_offer = [t |-> "obj", enabled |-> N1,
                             exercise_id |-> a.exercise_id]])

\* lines 656-667: the help offer, unless the last message already carries one
WithHelpOffer(msgs, a) ==
    LET last == msgs[Len(msgs)]
    IN IF Len(msgs) > 0 /\ IsObject(last.help_offer) /\ last.help_offer.enabled = N1
          /\ last.help_offer.exercise_id = a.exercise_id
       THEN msgs
       ELSE Append(msgs, [Msg("assistant", Txt(<<"h", "e", "l", "p", "?">>)) EXCEPT
                !.help_offer = [t |-> "obj", enabled |-> N1,
                                exercise_id |-> a.exercise_id]])

\* variant: an objective answer that is not fully correct is sent to the
\* model for review, as a free-response attempt is
onSubmitObjectiveAsksModel ==
    LET g == gradeObjective(active, attempt)
    IN IF ~IsObject(active) \/ active.enabled # N1 \/ g = NullV
       THEN UNCHANGED vars
       ELSE IF g.allCorrect
       THEN /\ grade' = g
            /\ active' = NullV
            /\ attempt' = NullV
            /\ triggerPostClear(active, Outcome("objective_correct"), messages,
                                active, attempt, "none", Undef)
            /\ ServerIdle
            /\ UNCHANGED <<conversationMode, onboardingStep, placement, config,
                           messages, pendingProposal>>
       ELSE /\ grade' = g
            /\ loading' = TRUE
            /\ req' = callApi("help", Txt(<<"r", "e", "v", "i", "e", "w">>), messages,
                              active, attempt, Undef, Undef)
            /\ resp' = NoResp
            /\ pc' = "submit"
            /\ frame' = [NoFrame EXCEPT !.active = active, !.attempt = attempt,
                                        !.messages = messages]
            /\ UNCHANGED <<conversationMode, onboardingStep, placement, config,
                           messages, active, attempt, pendingProposal, serverVars>>

\* lines 644-669
onSubmitObjective ==
    LET g == gradeObjective(active, attempt)
    IN IF ~IsObject(active) \/ active.enabled # N1 \/ g = NullV
       THEN UNCHANGED vars
       ELSE IF g.allCorrect
       THEN /\ grade' = g
            /\ active' = NullV
            /\ attempt' = NullV
            /\ triggerPostClear(active, Outcome("objective_correct"), messages,
                                active, attempt, "none", Undef)
            /\ ServerIdle
            /\ UNCHANGED <<conversationMode, onboardingStep, placement, config, messages,
                           pendingProposal>>
       ELSE /\ grade' = g
            /\ messages' = WithHelpOffer(messages, active)
               /\ UNCHANGED <<conversationMode, onboardingStep, placement, config, active,
                           attempt, pendingProposal, loading, handlerVars, netVars,
                           serverVars>>

\* lines 570-583; the Submit button is part of the exercise panel and is
\* disabled while loading
onSubmitExercise ==
    /\ ActiveUsable(active)
    /\ CanStartTurn
    /\ ~loading
    /\ IF active.problem_type \in {"fill_in_blank", "multiple_choice"}
       THEN onSubmitObjective
       ELSE /\ loading' = TRUE
            /\ req' = callApi("help", Txt(<<"r", "e", "v", "i", "e", "w">>), messages,
                              active, attempt, Undef, Undef)
            /\ resp' = NoResp
            /\ pc' = "submit"
            /\ frame' = [NoFrame EXCEPT !.active = active, !.attempt = attempt,
                                        !.messages = messages]
               /\ UNCHANGED <<conversationMode, onboardingStep, placement, config, messages,
                           active, attempt, pendingProposal, grade, serverVars>>
    /\ Persist

\* variant: the follow-up call is given the history without the help answer
SubmitResumeStaleHistory ==
    /\ pc = "submit"
    /\ resp.t = "resp"
    /\ LET result == resp.json
       IN IF ~resp.ok
          THEN /\ messages' = Append(messages, ErrorMsg)
               /\ loading' = FALSE
               /\ pc' = "idle"
               /\ frame' = NoFrame
               /\ req' = NoReq
               /\ resp' = NoResp
               /\ UNCHANGED <<active, attempt, grade, pendingProposal>>
          ELSE IF result.clear_active = N1
          THEN /\ messages' = WithResponse(messages, result)
               /\ active' = NullV
               /\ attempt' = NullV
               /\ grade' = NullV
               /\ triggerPostClear(frame.active, Outcome("model_clear"),
                     frame.messages,
                     frame.active, frame.attempt, "submit", result)
               /\ UNCHANGED pendingProposal
          ELSE /\ messages' = WithResponse(messages, result)
               /\ pendingProposal' = IF result.proposal.enabled = N1
                                     THEN result.proposal ELSE pendingProposal
               /\ loading' = FALSE
               /\ pc' = "idle"
               /\ frame' = NoFrame
               /\ req' = NoReq
               /\ resp' = NoResp
               /\ UNCHANGED <<active, attempt, grade>>
    /\ ServerIdle
    /\ UNCHANGED <<conversationMode, onboardingStep, placement, config>>
    /\ Persist

\* lines 583-613: the response of the review call arrives
SubmitResume ==
    /\ pc = "submit"
    /\ resp.t = "resp"
    /\ LET result == resp.json
       IN IF ~resp.ok
          THEN /\ messages' = Append(messages, ErrorMsg)
               /\ loading' = FALSE
               /\ pc' = "idle"
               /\ frame' = NoFrame
               /\ req' = NoReq
               /\ resp' = NoResp
               /\ UNCHANGED <<active, attempt, grade, pendingProposal>>
          ELSE IF result.clear_active = N1
          THEN /\ messages' = WithResponse(messages, result)
               /\ active' = NullV
               /\ attempt' = NullV
               /\ grade' = NullV
               /\ triggerPostClear(frame.active, Outcome("model_clear"),
                     Append(frame.messages, Msg("assistant", result.response)),
                     frame.active, frame.attempt, "submit", result)
               /\ UNCHANGED pendingProposal
          ELSE /\ messages' = WithResponse(messages, result)
               /\ pendingProposal' = IF result.proposal.enabled = N1
                                     THEN result.proposal ELSE pendingProposal
               /\ loading' = FALSE
               /\ pc' = "idle"
               /\ frame' = NoFrame
               /\ req' = NoReq
               /\ resp' = NoResp
               /\ UNCHANGED <<active, attempt, grade>>
    /\ ServerIdle
    /\ UNCHANGED <<conversationMode, onboardingStep, placement, config>>
    /\ Persist

\* lines 887-924: typing into a blank of the exercise panel
onBlankChange ==
    /\ ActiveUsable(active)
    /\ active.problem_type = "fill_in_blank"
    /\ HasBlanks(active)
    /\ \E i \in 1..Len(active.fill_in_blank.blanks), v \in BlankInputs :
         LET prev == IF attempt.t = "obj" THEN attempt.map ELSE <<>>
             id == active.fill_in_blank.blanks[i].id
         IN attempt' = [t |-> "obj",
                        map |-> [k \in DOMAIN prev \cup {id} |->
                                    IF k = id THEN Txt(v) ELSE prev[k]]]
    /\ UNCHANGED <<conversationMode, onboardingStep, placement, config, messages, active,
                   pendingProposal, grade, loading, handlerVars, netVars,
                   serverVars>>
    /\ Persist

\* lines 961-970: typing into the text area of the exercise panel
onTextAreaChange ==
    /\ ActiveUsable(active)
    /\ active.problem_type \in {"translation", "free_response"}
    /\ \E v \in AttemptInputs : attempt' = Txt(v)
    /\ UNCHANGED <<conversationMode, onboardingStep, placement, config, messages, active,
                   pendingProposal, grade, loading, handlerVars, netVars,
                   serverVars>>
    /\ Persist

\* lines 684-699
toggleMcOption ==
    /\ ActiveUsable(active)
    /\ active.problem_type = "multiple_choice"
    /\ IsObject(active.multiple_choice)
    /\ \E k \in 1..Len(active.multiple_choice.options) :
         LET id == active.multiple_choice.options[k]
             selected == IF attempt.t = "arr" THEN attempt.items ELSE <<>>
             allowMultiple == "allow_multiple" \in DOMAIN active.multiple_choice
                              /\ active.multiple_choice.allow_multiple
         IN attempt' =
              IF ~allowMultiple THEN [t |-> "arr", items |-> <<id>>]
              ELSE IF id \in Items(selected)
              THEN [t |-> "arr", items |-> SelectSeq(selected, LAMBDA x : x # id)]
              ELSE [t |-> "arr", items |-> Append(selected, id)]
    /\ UNCHANGED <<conversationMode, onboardingStep, placement, config, messages, active,
                   pendingProposal, grade, loading, handlerVars, netVars,
                   serverVars>>
    /\ Persist

(***************************************************************************)
(* The session: a fresh page with nothing stored                           *)
(***************************************************************************)
\* lines 87-88
DefaultConfig == [nativeLanguage |-> "English", targetLanguage |-> "Spanish"]

\* lines 717-733: the language inputs, editable at any time
NativeLanguages == {"English"}
TargetLanguages == {"Spanish", "French"}

onConfigChange ==
    /\ \E nl \in NativeLanguages, tl \in TargetLanguages :
          config' = [nativeLanguage |-> nl, targetLanguage |-> tl]
    /\ UNCHANGED <<conversationMode, onboardingStep, placement, messages, active,
                   attempt, pendingProposal, grade, loading, handlerVars, netVars,
                   serverVars>>
    /\ Persist

Init ==
    /\ config = DefaultConfig
    /\ conversationMode = "onboarding"
    /\ onboardingStep = 0
    /\ placement = [levelText |-> Txt(<<>>), focusText |-> Txt(<<>>)]
    /\ messages = ScriptedMessages
    /\ active = NullV
    /\ attempt = NullV
    /\ pendingProposal = NullV
    /\ grade = NullV
    /\ loading = FALSE
    /\ pc = "idle"
    /\ frame = NoFrame
    /\ req = NoReq
    /\ resp = NoResp
    /\ parsed = Undef
    /\ effectiveMode = "none"
    /\ userContent = NoContent
    /\ normalized = Undef
    /\ input = NoInput
    /\ storage = JsonStringify(Snapshot)

Next ==
    \/ onSend
    \/ onPollOption
    \/ onAcceptHelpOffer
    \/ onNewConversation
    \/ onStartProposal
    \/ onClearActive
    \/ onSubmitExercise
    \/ onBlankChange
    \/ onTextAreaChange
    \/ toggleMcOption
    \/ onConfigChange
    \/ POST
    \/ PlacementResume
    \/ SendTextResume
    \/ SubmitResume
    \/ PostClearResume

Spec == Init /\ [][Next]_vars

(***************************************************************************)
(* Properties of the session                                               *)
(***************************************************************************)
\* C1: whenever an exercise is active and the request is not the
\* post_clear follow-up, a user text (typed, poll answer, accepted help
\* offer: all go through sendText) is sent with mode help, and the server's
\* effective mode for a request carrying a usable active exercise is help
\* whatever mode the caller asked for.
C1_HelpModeForced ==
    /\ (pc = "sendText" /\ ActiveUsable(active)) =>
          /\ req.t = "req"
          /\ req.mode = "help"
          /\ req.active = active
    /\ (req.t = "req" /\ req.mode # "post_clear" /\ ActiveUsable(BodyActive(req))) =>
          /\ \A m \in {"chat", "help", "other", Undefined} :
                EffectiveMode(RequestedMode([req EXCEPT !.mode = m]),
                              BodyActive(req)) = "help"
          /\ resp.t = "resp" => effectiveMode = "help"

C1_Witness ==
    /\ pc = "sendText"
    /\ ActiveUsable(active)
    /\ req.t = "req" /\ req.mode = "help"
    /\ resp.t = "resp" /\ resp.ok
    /\ effectiveMode = "help"
    /\ userContent.kind = "help"

\* a step that empties the exercise slot, other than New conversation
ClearStep ==
    /\ active # NullV
    /\ active' = NullV
    /\ ~(pc = "idle" /\ pc' = "idle" /\ messages' = ScriptedMessages
         /\ onboardingStep' = 0)

\* a step that sends a post_clear request
PostClearIssued ==
    /\ req' # req
    /\ req'.t = "req"
    /\ req'.mode = "post_clear"

\* C2: every step that clears the active exercise (Clear, a fully correct
\* objective submit, a response with clear_active=1) sends a post_clear
\* request in that same step, post_clear requests are sent by such steps
\* only, and once one is outstanding the session keeps that one request,
\* which the server answers once in post_clear mode, until it returns to
\* idle with the answer applied: one call per clearing, never none, never
\* two.
C2_ExactlyOnePostClear ==
    [][ /\ ClearStep <=> PostClearIssued
        /\ PostClearIssued => (pc' = "postClear" /\ loading' /\ resp' = NoResp)
        /\ pc = "postClear" =>
              \/ /\ pc' = "postClear"
                 /\ req' = req
                 /\ resp.t = "resp" => resp' = resp
              \/ /\ pc' = "idle"
                 /\ resp.t = "resp"
                 /\ req' = NoReq
                 /\ ~loading'
        /\ (pc = "postClear" /\ resp.t = "resp") => effectiveMode = "post_clear"
      ]_vars

C2_Witness ==
    /\ pc = "postClear"
    /\ active = NullV
    /\ req.t = "req" /\ req.mode = "post_clear"
    /\ req.clearedOutcome.kind = "model_clear"
    /\ resp.t = "resp" /\ resp.ok
    /\ effectiveMode = "post_clear"

\* C3: in every reachable state, no active exercise means no attempt and no
\* grade: each clearing nulls active, attempt and grade together.
C3_ClearNullsAll ==
    active = NullV => (attempt = NullV /\ grade = NullV)

\* the state the fully correct objective submit leaves behind
C3_GradeLeftBehind ==
    /\ active = NullV
    /\ attempt = NullV
    /\ IsObject(grade)
    /\ grade.allCorrect
    /\ pc = "postClear"
    /\ req.clearedOutcome.kind = "objective_correct"

\* C4: active becomes a new exercise only by the user's Start exercise
\* action on a proposal shown in the chat, taken while no call is
\* outstanding; no step in which a response is applied sets active to a
\* non-null value.
C4_NoAutoActivation ==
    [][ (active' # active /\ active' # NullV) =>
           /\ pc = "idle" /\ pc' = "idle"
           /\ ~loading /\ ~loading'
           /\ \E p \in ShownProposals : active' = makeActiveFromProposal(p)
           /\ UNCHANGED <<messages, netVars, serverVars>>
      ]_vars

C4_Witness ==
    /\ pc = "idle"
    /\ IsObject(active)
    /\ IsObject(pendingProposal)
    /\ pendingProposal.enabled = N1
    /\ makeActiveFromProposal(pendingProposal) # active
    /\ \E p \in ShownProposals : active = makeActiveFromProposal(p)

\* does a serialised exercise carry an answer key
HasAnswerKeys(a) ==
    /\ IsObject(a)
    /\ \/ /\ IsObject(a.fill_in_blank)
          /\ "blanks" \in DOMAIN a.fill_in_blank
          /\ \E i \in 1..Len(a.fill_in_blank.blanks) :
                "expected_answers" \in DOMAIN a.fill_in_blank.blanks[i]
       \/ /\ IsObject(a.multiple_choice)
          /\ "correct_option_ids" \in DOMAIN a.multiple_choice

\* C5: when help-mode content is built for an active fill_in_blank or
\* multiple_choice exercise, the exercise written into the user content
\* carries no expected_answers and no correct_option_ids, and the request's
\* own active exercise still carries what it carried.
C5_HelpContextRedacted ==
    (userContent.kind = "help"
       /\ req.active.problem_type \in {"fill_in_blank", "multiple_choice"}) =>
        /\ ~HasAnswerKeys(userContent.activeContextJson)
        /\ ~HasAnswerKeys(userContent.helpContextJson.problem)
        /\ req.active = frame.active

\* the help-mode leak: the payload problem_type does not name keeps its key
C5_HelpLeak ==
    /\ userContent.kind = "help"
    /\ req.active.problem_type = "multiple_choice"
    /\ "correct_option_ids" \notin DOMAIN userContent.activeContextJson.multiple_choice
    /\ HasAnswerKeys(userContent.activeContextJson)

\* C6: in every mode whose user content embeds an exercise (help: the
\* active exercise; post_clear: the cleared exercise) the embedded exercise
\* carries no expected_answers and no correct_option_ids.
C6_RedactedOnEveryPath ==
    /\ userContent.kind = "help" =>
          /\ ~HasAnswerKeys(userContent.activeContextJson)
          /\ ~HasAnswerKeys(userContent.helpContextJson.problem)
    /\ userContent.kind = "post_clear" =>
          ~HasAnswerKeys(userContent.clearedJson)

\* the post_clear leak on its own: a well-formed exercise, cleared
C6_PostClearLeak ==
    /\ userContent.kind = "post_clear"
    /\ IsObject(userContent.clearedJson)
    /\ userContent.clearedJson = makeActiveFromProposal(PropFIB)
    /\ HasAnswerKeys(userContent.clearedJson)

(***************************************************************************)
(* The normaliser on its own: every parsed output the model can produce,   *)
(* under every effective mode.                                             *)
(***************************************************************************)
RawFlags == {N0, N1, "2", "\"1\"", "true", Null, Undefined}

RawProposals ==
    {Undef, NullV, ScalarV}
    \cup {[p EXCEPT !.enabled = en] :
            p \in {disabledProposal, PropFR, PropFIB, PropTwo, PropNone},
            en \in RawFlags}

RawPolls ==
    {Undef, NullV, ScalarV}
    \cup {[q EXCEPT !.enabled = en] : q \in {disabledPoll, Poll1}, en \in RawFlags}

ParsedOutputs ==
    {NullV, ScalarV, EmptyOutput}
    \cup { [t |-> "obj", response |-> r, clear_active |-> c, proposal |-> p, poll |-> q] :
             r \in {Txt(<<"r">>), Undef}, c \in RawFlags,
             p \in RawProposals, q \in RawPolls }

FreshSession ==
    /\ config = DefaultConfig
    /\ conversationMode = "onboarding"
    /\ onboardingStep = 0
    /\ placement = [levelText |-> Txt(<<>>), focusText |-> Txt(<<>>)]
    /\ messages = ScriptedMessages
    /\ active = NullV
    /\ attempt = NullV
    /\ pendingProposal = NullV
    /\ grade = NullV
    /\ loading = FALSE
    /\ pc = "idle"
    /\ frame = NoFrame
    /\ req = NoReq
    /\ resp = NoResp

InitNormalize ==
    /\ FreshSession
    /\ parsed \in ParsedOutputs
    /\ effectiveMode \in Modes
    /\ userContent = NoContent
    /\ normalized = Undef
    /\ input = NoInput
    /\ storage = JsonStringify(Snapshot)

\* route.js line 250
Normalize ==
    /\ normalized = Undef
    /\ normalized' = normalizeModelOutput(parsed, effectiveMode)
    /\ UNCHANGED <<clientVars, handlerVars, netVars, parsed, effectiveMode, userContent,
                   input>>
    /\ Persist

SpecNormalize == InitNormalize /\ [][Normalize]_vars

\* what the raw output asks for, read as the code's strict tests read it
RawProposalEnabled == IsObject(parsed) /\ IsObject(parsed.proposal) /\ parsed.proposal.enabled = N1
RawPollEnabled == IsObject(parsed) /\ IsObject(parsed.poll) /\ parsed.poll.enabled = N1
RawClear == IsObject(parsed) /\ parsed.clear_active = N1
Normalized == normalized # Undef

\* C7: in help mode the normalized output always has the canonical disabled
\* poll, whatever the raw output, and proposal and clear_active are exactly
\* their coerced values (no conflict resolution is applied).
C7_HelpModePollDisabled ==
    (Normalized /\ effectiveMode = "help") =>
        /\ normalized.poll = disabledPoll
        /\ normalized.proposal =
              (IF RawProposalEnabled THEN parsed.proposal ELSE disabledProposal)
        /\ normalized.clear_active = (IF RawClear THEN N1 ELSE N0)

C7_Witness ==
    /\ Normalized /\ effectiveMode = "help"
    /\ RawPollEnabled /\ RawProposalEnabled /\ RawClear
    /\ normalized.poll.enabled = N0
    /\ normalized.proposal.enabled = N1

\* C8: in chat and post_clear modes the three signals are resolved in
\* priority order: poll+clear disables the poll and stops (proposal kept,
\* clear_active 1); otherwise an enabled poll disables the proposal and
\* forces clear_active 0; without a poll nothing changes.
C8_ConflictResolution ==
    (Normalized /\ effectiveMode \in {"chat", "post_clear"}) =>
        LET coercedProposal == IF RawProposalEnabled THEN parsed.proposal
                               ELSE disabledProposal
        IN CASE RawPollEnabled /\ RawClear ->
                  /\ normalized.poll = disabledPoll
                  /\ normalized.proposal = coercedProposal
                  /\ normalized.clear_active = N1
             [] RawPollEnabled /\ ~RawClear ->
                  /\ normalized.poll = parsed.poll
                  /\ normalized.proposal = disabledProposal
                  /\ normalized.clear_active = N0
             [] OTHER ->
                  /\ normalized.poll = disabledPoll
                  /\ normalized.proposal = coercedProposal
                  /\ normalized.clear_active = (IF RawClear THEN N1 ELSE N0)

C8_Witness ==
    /\ Normalized /\ effectiveMode = "chat"
    /\ RawPollEnabled /\ RawProposalEnabled /\ RawClear
    /\ normalized.poll = disabledPoll
    /\ normalized.proposal = parsed.proposal
    /\ normalized.clear_active = N1

\* C9: in every mode, a normalized output with an enabled poll has a
\* disabled proposal and clear_active 0.
C9_PollExcludesProposalAndClear ==
    (Normalized /\ normalized.poll.enabled = N1) =>
        /\ normalized.proposal.enabled = N0
        /\ normalized.clear_active = N0

C9_Witness ==
    /\ Normalized
    /\ RawProposalEnabled
    /\ normalized.poll.enabled = N1
    /\ normalized.proposal = disabledProposal

\* C10: the normaliser is total: for every parsed output (null, a
\* non-object, {}, missing or non-object proposal or poll, any enabled
\* value) the result is an object whose proposal is the canonical disabled
\* proposal unless proposal.enabled is exactly 1, whose poll is the
\* canonical disabled poll unless poll.enabled is exactly 1, and whose
\* clear_active is 0 or 1, and 0 whenever the raw value is not exactly 1;
\* {} in chat mode gives disabled proposal, disabled poll, clear_active 0.
C10_NormalizerTotal ==
    Normalized =>
        /\ IsObject(normalized)
        /\ IsObject(normalized.proposal)
        /\ IsObject(normalized.poll)
        /\ ~RawProposalEnabled => normalized.proposal = disabledProposal
        /\ ~RawPollEnabled => normalized.poll = disabledPoll
        /\ normalized.proposal.enabled \in {N0, N1}
        /\ normalized.poll.enabled \in {N0, N1}
        /\ normalized.clear_active \in {N0, N1}
        /\ ~RawClear => normalized.clear_active = N0
        /\ (parsed = EmptyOutput /\ effectiveMode = "chat") =>
              /\ normalized.proposal = disabledProposal
              /\ normalized.poll = disabledPoll
              /\ normalized.clear_active = N0

C10_Witness ==
    /\ Normalized
    /\ IsObject(parsed)
    /\ parsed.proposal.t = "obj" /\ parsed.proposal.enabled = "\"1\""
    /\ parsed.poll = ScalarV
    /\ parsed.clear_active = "2"
    /\ normalized.proposal = disabledProposal
    /\ normalized.poll = disabledPoll
    /\ normalized.clear_active = N0

(***************************************************************************)
(* Properties of exercises, failures and grading                           *)
(***************************************************************************)
\* the tagged union of an exercise or proposal: disabled means no payload,
\* enabled means exactly the payload problem_type names
TaggedUnion(x) ==
    IsObject(x) =>
        IF x.enabled = N1
        THEN /\ x.problem_type \in ProblemTypes
             /\ \A k \in ProblemTypes : (x[k] # NullV) <=> (k = x.problem_type)
        ELSE \A k \in ProblemTypes : x[k] = NullV

\* C11: in every reachable state the normalized response's proposal, the
\* pending proposal and the active exercise satisfy the tagged union:
\* enabled=0 implies all four payloads null, enabled=1 implies exactly one
\* payload non-null, the one problem_type names.
C11_TaggedUnionHeld ==
    /\ Normalized => TaggedUnion(normalized.proposal)
    /\ TaggedUnion(pendingProposal)
    /\ TaggedUnion(active)

\* an exercise with two payloads has been started
C11_TwoPayloadsActive ==
    /\ IsObject(active)
    /\ active.problem_type = "multiple_choice"
    /\ IsObject(active.fill_in_blank)
    /\ IsObject(active.multiple_choice)

\* the session state other than the history and the loading flag
sessionVars ==
    <<conversationMode, onboardingStep, placement, active, attempt,
      pendingProposal, grade>>

\* a step that sends a request to the server
IssuesRequest == req' # req /\ req'.t = "req"

\* a step in which the failure of the outstanding call is handled
FailureHandled == pc # "idle" /\ resp.t = "resp" /\ ~resp.ok /\ pc' # pc

\* C12: a failed call leaves the session as it was before the turn, apart
\* from the history: the step that starts a call changes nothing of the
\* session state (any call may fail, and nothing is rolled back), and the
\* step that handles the failure appends exactly one error message, ends
\* the turn and changes nothing else.
C12_FailureLeavesState ==
    [][ /\ IssuesRequest => UNCHANGED sessionVars
        /\ FailureHandled =>
              /\ messages' = Append(messages, ErrorMsg)
              /\ pc' = "idle" /\ ~loading'
              /\ UNCHANGED sessionVars
      ]_vars

\* the post_clear call of a user Clear has failed: the exercise is gone
C12_ClearThenFailure ==
    /\ pc = "postClear"
    /\ resp.t = "resp" /\ ~resp.ok
    /\ req.clearedOutcome.kind = "user_cleared"
    /\ IsObject(req.cleared)
    /\ active = NullV

\* C13: at most one call is outstanding.  A call is in flight exactly
\* while loading is set; a request is sent either when nothing is in
\* flight or, by the controller itself, as the post_clear follow-up of a
\* help call whose successful answer is being applied; and while loading
\* is set no step other than the server's answer and the handler's own
\* continuation changes the history, the exercise, the proposals, the
\* onboarding state or the request (send, poll answer, help-offer accept,
\* submit, clear, start proposal and new conversation are refused).
\* Typing into the exercise's inputs is not among the refused actions.
C13_OneCallAtATime ==
    [][ /\ loading <=> (pc # "idle")
        /\ loading <=> (req.t = "req")
        /\ IssuesRequest =>
              \/ ~loading
              \/ /\ pc \in {"sendText", "submit"}
                 /\ resp.t = "resp" /\ resp.ok
                 /\ effectiveMode = "help"
                 /\ req'.mode = "post_clear"
                 /\ pc' = "postClear"
        /\ (loading /\ pc' = pc) =>
              UNCHANGED <<messages, conversationMode, onboardingStep, placement,
                          active, pendingProposal, grade, loading, req, frame>>
        /\ (loading /\ pc' # pc) => resp.t = "resp"
      ]_vars

C13_Witness ==
    /\ loading
    /\ pc = "postClear"
    /\ frame.caller = "sendText"
    /\ req.t = "req" /\ req.mode = "post_clear"
    /\ resp.t = "none"

\* the empty attempt of each problem type, as the claim words it
EmptyAttemptFor(a) ==
    CASE a.problem_type \in {"translation", "free_response"} -> Txt(<<>>)
      [] a.problem_type = "multiple_choice" -> [t |-> "arr", items |-> <<>>]
      [] a.problem_type = "fill_in_blank" ->
            [t |-> "obj",
             map |-> [k \in {a.fill_in_blank.blanks[i].id :
                               i \in 1..Len(a.fill_in_blank.blanks)} |-> Txt(<<>>)]]

StartInputs ==
    {PropTR, PropFR, PropFIB, PropMC, PropTwo, disabledProposal,
     [PropFR EXCEPT !.enabled = N0],
     [PropFR EXCEPT !.problem_type = Null],
     [PropFR EXCEPT !.proposal_id = Null],
     [PropFIB EXCEPT !.proposal_id = Null]}

StartSessions ==
    LET fr == makeActiveFromProposal(PropFR)
        fib == makeActiveFromProposal(PropFIB)
        wrong == [t |-> "obj", map |-> [k \in {"b1"} |-> Txt(<<"e", "s">>)]]
    IN {[active |-> NullV, attempt |-> NullV, grade |-> NullV],
        [active |-> fr, attempt |-> Txt(<<"e", "s">>), grade |-> NullV],
        [active |-> fib, attempt |-> wrong, grade |-> gradeObjective(fib, wrong)]}

InitStart ==
    /\ config \in {[nativeLanguage |-> nl, targetLanguage |-> tl] :
                     nl \in NativeLanguages, tl \in TargetLanguages}
    /\ conversationMode = "chat"
    /\ onboardingStep = 2
    /\ placement = [levelText |-> Txt(<<"A", "1">>), focusText |-> Txt(<<"e", "s">>)]
    /\ messages = ScriptedMessages
    /\ \E ss \in StartSessions :
          active = ss.active /\ attempt = ss.attempt /\ grade = ss.grade
    /\ pendingProposal \in {NullV} \cup {p \in StartInputs : p.enabled = N1}
    /\ loading = FALSE
    /\ pc = "idle"
    /\ frame = NoFrame
    /\ req = NoReq
    /\ resp = NoResp
    /\ parsed = Undef
    /\ effectiveMode = "none"
    /\ userContent = NoContent
    /\ normalized = Undef
    /\ input = NoInput
    /\ storage = JsonStringify(Snapshot)

StartAnyProposal == \E proposal \in StartInputs : StartProposal(proposal)

SpecStart == InitStart /\ [][StartAnyProposal]_vars

\* can the proposal be started at all
Startable(p) == p.enabled = N1 /\ Truthy(p.problem_type)

\* what starting a proposal does, apart from the pending proposal
StartEffect(p) ==
    IF ~loading /\ Startable(p)
    THEN /\ active'.enabled = N1
         /\ active'.exercise_id = p.proposal_id
         /\ active'.problem_type = p.problem_type
         /\ \A k \in ProblemTypes : active'[k] = p[k]
         /\ grade' = NullV
         /\ UNCHANGED <<messages, conversationMode, onboardingStep, placement, config,
                        loading, handlerVars, netVars, serverVars>>
    ELSE UNCHANGED vars

\* C15 as claimed: starting a startable proposal sets active to that
\* exercise with exercise_id = proposal_id, clears grade, leaves messages,
\* conversation mode and config alone, and clears pendingProposal if and
\* only if the pending proposal's identifier equals the started one's;
\* starting a disabled or type-less proposal changes nothing.
C15_StartEffectAsClaimed ==
    [][ \A p \in StartInputs : StartProposal(p) =>
          /\ StartEffect(p)
          /\ (~loading /\ Startable(p)) =>
                pendingProposal' =
                    IF IsObject(pendingProposal)
                       /\ pendingProposal.proposal_id = p.proposal_id
                    THEN NullV ELSE pendingProposal
      ]_vars

\* C15, amended: as above, but pendingProposal is cleared if and only if
\* the started proposal has a non-empty proposal_id and the pending
\* proposal's proposal_id equals it; with no identifier on the started
\* proposal the pending proposal is kept.
C15_StartEffect ==
    [][ \A p \in StartInputs : StartProposal(p) =>
          /\ StartEffect(p)
          /\ (~loading /\ Startable(p)) =>
                pendingProposal' =
                    IF Truthy(p.proposal_id) /\ IsObject(pendingProposal)
                       /\ pendingProposal.proposal_id = p.proposal_id
                    THEN NullV ELSE pendingProposal
      ]_vars

C15_Witness ==
    /\ IsObject(active)
    /\ active.exercise_id = Null
    /\ active.problem_type = "fill_in_blank"
    /\ grade = NullV
    /\ IsObject(pendingProposal)
    /\ pendingProposal.proposal_id = Null

(***************************************************************************)
(* Objective grading on its own: Submit on every fill_in_blank and         *)
(* multiple_choice exercise and attempt of the bounded sets below.         *)
(***************************************************************************)
MaxBlanks == 2
MaxIds == 2

RECURSIVE SeqsUpTo(_, _)
SeqsUpTo(S, n) ==
    IF n = 0 THEN {<<>>}
    ELSE LET shorter == SeqsUpTo(S, n - 1)
         IN shorter \cup {Append(q, x) : q \in shorter, x \in S}

GradeAnswers ==
    {<<>>, << <<"s", "o", "y">> >>, << <<" ", "S", "o", "y", " ">>, <<"e", "s">> >>,
     << <<>> >>}

GradeBlanks ==
    {[id |-> i, expected_answers |-> e] : i \in {"b1", "b2"}, e \in GradeAnswers}
    \cup {[id |-> i] : i \in {"b1", "b2"}}

GradeSubmissions ==
    {Txt(<<>>), Txt(<<" ", "S", "O", "Y">>), Txt(<<"e", "s">>), Txt(<<"s", "o">>)}

FIBExercises ==
    {[makeActiveFromProposal(PropFIB) EXCEPT !.fill_in_blank.blanks = bs] :
        bs \in SeqsUpTo(GradeBlanks, MaxBlanks)}

FIBAttempts ==
    {NullV} \cup
    {[t |-> "obj", map |-> m] :
        m \in UNION {[ids -> GradeSubmissions] : ids \in SUBSET {"b1", "b2"}}}

OptionIds == {"a", "b", "c"}

MCExercises ==
    {[makeActiveFromProposal(PropMC) EXCEPT !.multiple_choice.correct_option_ids = c] :
        c \in SeqsUpTo(OptionIds, MaxIds)}
    \cup {[makeActiveFromProposal(PropMC) EXCEPT
              !.multiple_choice = [t |-> "obj", options |-> <<"a", "b">>]]}

MCAttempts ==
    {NullV, Txt(<<"a">>)} \cup
    {[t |-> "arr", items |-> sel] : sel \in SeqsUpTo(OptionIds, MaxIds + 1)}

InitGrade ==
    /\ config = DefaultConfig
    /\ conversationMode = "chat"
    /\ onboardingStep = 2
    /\ placement = [levelText |-> Txt(<<"A", "1">>), focusText |-> Txt(<<"e", "s">>)]
    /\ messages = ScriptedMessages
    /\ \/ active \in FIBExercises /\ attempt \in FIBAttempts
       \/ active \in MCExercises /\ attempt \in MCAttempts
    /\ grade = NullV
    /\ pendingProposal = NullV
    /\ loading = FALSE
    /\ pc = "idle"
    /\ frame = NoFrame
    /\ req = NoReq
    /\ resp = NoResp
    /\ parsed = Undef
    /\ effectiveMode = "none"
    /\ userContent = NoContent
    /\ normalized = Undef
    /\ input = NoInput
    /\ storage = JsonStringify(Snapshot)

SpecGrade == InitGrade /\ [][onSubmitExercise]_vars

\* C16: for every fill_in_blank exercise and attempt, Submit grades each
\* blank correct iff the trimmed, lower-cased submission for its id (the
\* empty string when missing) equals the trimmed, lower-cased form of at
\* least one accepted answer; results has one entry per blank, in order;
\* allCorrect is true iff every blank is correct.
C16_FillInBlankGrading ==
    [][ (IsObject(active) /\ active.problem_type = "fill_in_blank") =>
          LET bs == active.fill_in_blank.blanks
              Sub(b) == IF attempt.t = "obj" /\ b.id \in DOMAIN attempt.map
                        THEN attempt.map[b.id].s ELSE <<>>
              Accepted(b) == IF "expected_answers" \in DOMAIN b
                             THEN Items(b.expected_answers) ELSE {}
              Correct(b) == \E a \in Accepted(b) :
                               toLowerCase(trim(a)) = toLowerCase(trim(Sub(b)))
          IN /\ IsObject(grade')
             /\ grade'.kind = "fill_in_blank"
             /\ Len(grade'.results) = Len(bs)
             /\ \A i \in 1..Len(bs) :
                   /\ grade'.results[i].id = bs[i].id
                   /\ grade'.results[i].correct = Correct(bs[i])
             /\ grade'.allCorrect = (\A i \in 1..Len(bs) : Correct(bs[i]))
      ]_vars

C16_Witness ==
    /\ IsObject(grade) /\ grade.kind = "fill_in_blank"
    /\ Len(grade.results) = 2
    /\ grade.results[1].id = "b1" /\ grade.results[1].correct
    /\ grade.results[2].id = "b2" /\ ~grade.results[2].correct
    /\ active.fill_in_blank.blanks[1].expected_answers
          = << <<" ", "S", "o", "y", " ">>, <<"e", "s">> >>
    /\ ~grade.allCorrect
    /\ IsObject(active)
    /\ attempt.t = "obj" /\ DOMAIN attempt.map = {"b1"}
    /\ attempt.map["b1"] = Txt(<<" ", "S", "O", "Y">>)

\* C17: for every multiple_choice exercise and selection, allCorrect is
\* true iff the set of selected ids equals the set of correct ids,
\* whatever the order and the duplicates of either list; a strict subset
\* or superset is not correct.
C17_MultipleChoiceGrading ==
    [][ (IsObject(active) /\ active.problem_type = "multiple_choice") =>
          LET mc == active.multiple_choice
              correct == IF "correct_option_ids" \in DOMAIN mc
                         THEN {mc.correct_option_ids[i] :
                                  i \in 1..Len(mc.correct_option_ids)}
                         ELSE {}
              selected == IF attempt.t = "arr"
                          THEN {attempt.items[i] : i \in 1..Len(attempt.items)}
                          ELSE {}
          IN /\ IsObject(grade')
             /\ grade'.kind = "multiple_choice"
             /\ grade'.allCorrect = (selected = correct)
      ]_vars

C17_Witness ==
    /\ IsObject(grade) /\ grade.kind = "multiple_choice" /\ grade.allCorrect
    /\ pc = "postClear"
    /\ req.cleared = [makeActiveFromProposal(PropMC) EXCEPT
                         !.multiple_choice.correct_option_ids = <<"a", "b">>]
    /\ frame.attempt = [t |-> "arr", items |-> <<"b", "a", "b">>]

\* C18: Submit on a fill_in_blank or multiple_choice exercise whose answer
\* is not fully correct sends nothing to the model: no request is made,
\* the session stays idle, the exercise stays active, attempt is unchanged
\* and grade becomes the result of the app's own grading.
C18_IncorrectSubmitIsLocal ==
    [][ LET g == gradeObjective(active, attempt)
        IN (IsObject(active)
              /\ active.problem_type \in {"fill_in_blank", "multiple_choice"}
              /\ IsObject(g) /\ ~g.allCorrect) =>
             /\ grade' = g
             /\ active' = active
             /\ attempt' = attempt
             /\ req = NoReq /\ req' = NoReq /\ resp' = NoResp
             /\ pc' = "idle" /\ ~loading'
             /\ UNCHANGED <<pendingProposal, conversationMode, onboardingStep,
                            placement, config, serverVars>>
      ]_vars

C18_Witness ==
    /\ active = [makeActiveFromProposal(PropMC) EXCEPT
                    !.multiple_choice.correct_option_ids = <<"a", "b">>]
    /\ attempt = [t |-> "arr", items |-> <<"a">>]
    /\ IsObject(grade) /\ ~grade.allCorrect
    /\ req = NoReq /\ pc = "idle" /\ ~loading
    /\ IsObject(messages[Len(messages)].help_offer)

(***************************************************************************)
(* Onboarding on its own: the two scripted questions answered with the     *)
(* texts below, the placement call and its answer.                         *)
(***************************************************************************)
OnboardingTexts ==
    {Txt(<<>>), Txt(<<" ">>), Txt(<<"e", "s">>), Txt(<<" ", "A", "1", " ">>),
     Txt(<<"b", "e", "g", "i", "n", "n", "e", "r">>)}

SendAny == \E text \in OnboardingTexts : Send(text)

NextOnboarding == SendAny \/ POST \/ PlacementResume

SpecOnboarding == Init /\ [][NextOnboarding]_vars

\* the text without its leading and trailing spaces
Stripped(s) ==
    LET ok(i, j) ==
            /\ \A k \in 1..Len(s) : (k < i \/ k > j) => s[k] = " "
            /\ IF i <= j THEN s[i] # " " /\ s[j] # " " ELSE i = 1 /\ j = 0
        ij == CHOOSE p \in (1..(Len(s) + 1)) \X (0..Len(s)) : ok(p[1], p[2])
    IN SubSeq(s, ij[1], ij[2])

AtStep(n) == conversationMode = "onboarding" /\ onboardingStep = n /\ ~loading

\* what onboarding step 0 does with the text it keeps
Step0Effect(kept) ==
    /\ placement' = [placement EXCEPT !.levelText = kept]
    /\ messages' = messages \o <<Msg("user", kept), SecondQuestion>>
    /\ onboardingStep' = 1
    /\ conversationMode' = "onboarding"
    /\ req' = NoReq /\ resp' = NoResp /\ pc' = "idle" /\ ~loading'
    /\ UNCHANGED <<active, attempt, pendingProposal, grade, config, serverVars>>

\* C19 as claimed: at onboarding step 0 any non-empty text sent is stored
\* verbatim as placement.levelText, the second scripted question follows
\* the user's message, onboardingStep becomes 1, conversationMode stays
\* onboarding and no model call is made.
C19_Step0AsClaimed ==
    [][ \A text \in OnboardingTexts :
          (AtStep(0) /\ text.s # <<>> /\ Send(text)) => Step0Effect(text)
      ]_vars

\* C19, amended: the text is stored with its leading and trailing
\* whitespace removed, and a text that is empty after that is ignored
\* (nothing changes); otherwise as claimed.
C19_Step0 ==
    [][ \A text \in OnboardingTexts :
          (AtStep(0) /\ Send(text)) =>
             IF Stripped(text.s) = <<>>
             THEN UNCHANGED vars
             ELSE Step0Effect(Txt(Stripped(text.s)))
      ]_vars

C19_Witness ==
    /\ conversationMode = "onboarding" /\ onboardingStep = 1
    /\ placement.levelText = Txt(<<"A", "1">>)
    /\ Len(messages) = 5
    /\ messages[4] = Msg("user", Txt(<<"A", "1">>))
    /\ messages[5] = SecondQuestion
    /\ req = NoReq /\ ~loading

\* C20: at onboarding step 1 the text sent is stored as
\* placement.focusText and one chat-mode request is made whose text embeds
\* the reported level, the level inferred from it and the focus text; the
\* server handles it in chat mode; no other request is made before the
\* answer is applied; a successful answer moves the session to chat mode,
\* step 2, and its enabled proposal becomes pendingProposal, and a failed
\* one leaves the session at step 1.
C20_Step1 ==
    [][ /\ \A text \in OnboardingTexts :
             (AtStep(1) /\ Stripped(text.s) # <<>> /\ Send(text)) =>
                LET focus == Stripped(text.s)
                    level == placement.levelText.s
                IN /\ placement' = [placement EXCEPT !.focusText = Txt(focus)]
                   /\ req'.t = "req" /\ req'.mode = "chat"
                   /\ includes(req'.userText.s, level)
                   /\ includes(req'.userText.s, <<"approx", ":">> \o inferApproxLevel(level))
                   /\ includes(req'.userText.s, <<"focus", ":">> \o focus)
                   /\ pc' = "placement" /\ loading' /\ resp' = NoResp
                   /\ conversationMode' = "onboarding" /\ onboardingStep' = 1
        /\ pc = "placement" =>
              \/ /\ pc' = "placement" /\ req' = req
                 /\ resp.t = "resp" => resp' = resp
                 /\ UNCHANGED <<conversationMode, onboardingStep, pendingProposal>>
              \/ /\ pc' = "idle" /\ req' = NoReq /\ ~loading'
                 /\ resp.t = "resp"
                 /\ IF resp.ok
                    THEN /\ effectiveMode = "chat"
                         /\ conversationMode' = "chat"
                         /\ onboardingStep' = 2
                         /\ pendingProposal' =
                               IF resp.json.proposal.enabled = N1
                               THEN resp.json.proposal ELSE pendingProposal
                    ELSE UNCHANGED <<conversationMode, onboardingStep,
                                     pendingProposal>>
      ]_vars

C20_Witness ==
    /\ conversationMode = "chat" /\ onboardingStep = 2
    /\ placement.levelText = Txt(<<"b", "e", "g", "i", "n", "n", "e", "r">>)
    /\ placement.focusText = Txt(<<"e", "s">>)
    /\ pendingProposal = PropFR
    /\ pc = "idle" /\ req = NoReq
    /\ Len(messages) = 7

(***************************************************************************)
(* Properties of resets, responses and the message history                 *)
(***************************************************************************)
\* C21: New conversation, taken while no call is in flight, leaves the
\* session in onboarding step 0 with an emptied placement, no active
\* exercise, attempt, pending proposal or grade, and a history made of the
\* scripted opening messages for the current target language only (no user
\* message), and leaves the language configuration as it was; taken while a
\* call is in flight it changes nothing.
C21_NewConversationResets ==
    [][ onNewConversation =>
          IF loading THEN UNCHANGED vars
          ELSE /\ conversationMode' = "onboarding"
               /\ onboardingStep' = 0
               /\ placement' = [levelText |-> Txt(<<>>), focusText |-> Txt(<<>>)]
               /\ active' = NullV /\ attempt' = NullV
               /\ pendingProposal' = NullV /\ grade' = NullV
               /\ messages' = ScriptedMessages
               /\ \A i \in 1..Len(messages') : messages'[i].role = "assistant"
               /\ messages'[1].content.s[3] = config.targetLanguage
               /\ config' = config
      ]_vars

\* a new conversation was started after the target language was changed
C21_Witness ==
    /\ config.targetLanguage = "French"
    /\ messages = ScriptedMessages
    /\ conversationMode = "onboarding" /\ onboardingStep = 0
    /\ pendingProposal = NullV /\ active = NullV
    /\ pc = "idle"

\* C22: when the answer to a chat request made with no active exercise
\* carries clear_active=1, applying it leaves active, attempt and grade as
\* they were, sends no post_clear request and ends the turn.
C22_ClearWithoutActiveIsNoOp ==
    [][ ( /\ pc = "sendText" /\ pc' # pc
          /\ resp.t = "resp" /\ resp.ok
          /\ resp.json.clear_active = N1
          /\ conversationMode = "chat"
          /\ active = NullV )
        => /\ UNCHANGED <<active, attempt, grade>>
           /\ ~PostClearIssued
           /\ req' = NoReq
           /\ pc' = "idle" /\ ~loading'
      ]_vars

\* a chat answer with clear_active=1 has arrived while nothing is active
\* and the grade of an earlier exercise is still shown
C22_Witness ==
    /\ pc = "sendText"
    /\ conversationMode = "chat"
    /\ active = NullV
    /\ IsObject(grade)
    /\ effectiveMode = "chat"
    /\ resp.t = "resp" /\ resp.ok
    /\ resp.json.clear_active = N1

\* the proposal the turn's answers leave pending: the enabled proposal of
\* the answer being applied, else the enabled proposal of the help answer
\* that started the clearing follow-up, else the one pending before
LatestProposal ==
    IF resp.ok /\ resp.json.proposal.enabled = N1
    THEN resp.json.proposal
    ELSE IF pc = "postClear" /\ frame.caller # "none"
            /\ frame.result.proposal.enabled = N1
    THEN frame.result.proposal
    ELSE pendingProposal

\* C23: when a turn ends, the pending proposal is the enabled proposal of
\* the chat, help or post_clear answer applied last, whether or not the
\* exercise was cleared in that turn, and it is unchanged when no answer of
\* the turn carried an enabled proposal.
C23_EnabledProposalBecomesPending ==
    [][ (pc # "idle" /\ pc' = "idle" /\ resp.t = "resp")
           => pendingProposal' = LatestProposal
      ]_vars

\* the post_clear answer chained after a help answer proposes an exercise
\* other than the one the help answer proposed
C23_PostClearProposalOverwritten ==
    /\ pc = "postClear"
    /\ frame.caller = "sendText"
    /\ frame.result.proposal = PropFR
    /\ resp.t = "resp" /\ resp.ok
    /\ resp.json.proposal = PropFIB
    /\ pendingProposal = NullV

(***************************************************************************)
(* The route on its own: POST answers any request body, whoever sent it    *)
(***************************************************************************)
RequestModes == {"chat", "help", "post_clear", Undefined}
RequestTexts == {Undef, Txt(<<>>), Txt(<<" ">>), Txt(<<" ", " ">>), Txt(<<"e", "s">>)}
RequestActives ==
    {NullV, Undef, makeActiveFromProposal(PropFR),
     [makeActiveFromProposal(PropFR) EXCEPT !.enabled = N0],
     [makeActiveFromProposal(PropFR) EXCEPT !.problem_type = Null]}

\* the messages array of a body: empty; a session's history with a
\* proposal and a poll attached to an answer; entries that are no objects,
\* lack a role or a content, or have another role or a content that is no
\* string
RequestHistories ==
    { <<>>,
      << Msg("user", Txt(<<"e", "s">>)),
         AssistantMsg([response |-> Txt(<<"r">>), proposal |-> PropFIB, poll |-> Poll1]),
         [Msg("assistant", Txt(<<"o">>)) EXCEPT !.help_offer = [t |-> "obj"]] >>,
      << NullV, Msg("system", Txt(<<"e", "s">>)), ScalarV,
         Msg("assistant", Undef), [content |-> Txt(<<"e">>)],
         Msg("user", Txt(<<"s">>)), [role |-> "assistant"],
         [Msg("assistant", Txt(<<"r">>)) EXCEPT !.proposal = PropMC] >> }

\* route.js lines 161-179: the fields POST reads from the body
RequestBodies ==
    { [t |-> "req", mode |-> m, userText |-> u, messages |-> h,
       config |-> DefaultConfig, active |-> a, attempt |-> NullV,
       cleared |-> Undef, clearedOutcome |-> Undef] :
        m \in RequestModes, u \in RequestTexts, a \in RequestActives,
        h \in RequestHistories }

\* a fresh page, and a request that has reached the route
InitPost ==
    /\ config = DefaultConfig
    /\ conversationMode = "onboarding"
    /\ onboardingStep = 0
    /\ placement = [levelText |-> Txt(<<>>), focusText |-> Txt(<<>>)]
    /\ messages = ScriptedMessages
    /\ active = NullV
    /\ attempt = NullV
    /\ pendingProposal = NullV
    /\ grade = NullV
    /\ loading = FALSE
    /\ pc = "idle"
    /\ frame = NoFrame
    /\ req \in RequestBodies
    /\ resp = NoResp
    /\ parsed = Undef
    /\ effectiveMode = "none"
    /\ userContent = NoContent
    /\ normalized = Undef
    /\ input = NoInput
    /\ storage = JsonStringify(Snapshot)

\* the user sends a text, blank or not, from the message box
SendTyped == \E text \in OnboardingTexts : Send(text)

NextPost == POST \/ SendTyped

SpecPost == InitPost /\ [][NextPost]_vars

\* the user text is absent, empty or made of spaces only
BlankText(u) == ~IsString(u) \/ \A i \in 1..Len(u.s) : u.s[i] = " "

\* the requests the claim calls invalid
InvalidRequest(body) ==
    \/ /\ body.mode = "help"
       /\ ~(IsObject(body.active) /\ body.active.enabled = N1)
    \/ /\ body.mode # "post_clear"
       /\ BlankText(body.userText)

\* C24: the route answers an invalid request (help mode without an enabled
\* active exercise; a help or chat request whose user text is absent, empty
\* or spaces only) with an error, without calling the model and without
\* changing anything of the session or the request; and the page itself
\* drops an empty or spaces-only text without sending anything or changing
\* anything.
C24_InvalidRequestRejected ==
    [][ /\ (req.t = "req" /\ resp.t = "none" /\ resp'.t = "resp"
            /\ InvalidRequest(req))
           => /\ ~resp'.ok
              /\ userContent' = NoContent
              /\ parsed' = Undef /\ normalized' = Undef
              /\ UNCHANGED <<clientVars, handlerVars, req>>
        /\ \A text \in OnboardingTexts :
              (BlankText(text) /\ Send(text)) => UNCHANGED vars
      ]_vars

\* a help request without an active exercise has been rejected
C24_Witness ==
    /\ req.t = "req" /\ req.mode = "help"
    /\ req.active = NullV
    /\ req.userText = Txt(<<"e", "s">>)
    /\ resp.t = "resp" /\ ~resp.ok
    /\ effectiveMode = "help"
    /\ userContent = NoContent

\* the (role, content) pairs of a history
RoleContent(msgs) == [i \in 1..Len(msgs) |-> <<msgs[i].role, msgs[i].content>>]

IsPrefix(a, b) == Len(a) <= Len(b) /\ SubSeq(b, 1, Len(a)) = a

\* a message is as it was, or has gained an annotation
SameOrAnnotated(old, new) ==
    /\ [new EXCEPT !.poll_answer = Undef, !.help_offer_accepted = Undefined]
         = [old EXCEPT !.poll_answer = Undef, !.help_offer_accepted = Undefined]
    /\ old.poll_answer # Undef => new.poll_answer = old.poll_answer
    /\ old.help_offer_accepted = N1 => new.help_offer_accepted = N1

\* C25: every step other than New conversation keeps the history's
\* (role, content) pairs as a prefix of the new history's: no message is
\* removed, moved or given another role or content, and an existing
\* message changes at most by gaining a poll_answer or help_offer_accepted
\* annotation.
C25_HistoryAppendOnly ==
    [][ ~onNewConversation =>
          /\ IsPrefix(RoleContent(messages), RoleContent(messages'))
          /\ \A i \in 1..Len(messages) : SameOrAnnotated(messages[i], messages'[i])
      ]_vars

\* a history that grew by scripted, user, help-offer, answer and error
\* messages
C25_Witness ==
    /\ Len(messages) >= 8
    /\ \E i, j, k \in 1..Len(messages) :
          /\ i < j /\ j < k
          /\ IsObject(messages[i].help_offer)
          /\ messages[j].role = "user"
          /\ messages[k] = ErrorMsg

(***************************************************************************)
(* page.js: loading the stored session (lines 215-264) on its own          *)
(***************************************************************************)
NumV(n) == [t |-> "num", v |-> n]
ArrV(items) == [t |-> "arr", items |-> items]

\* the value of an exception that escapes a call
Thrown == [t |-> "thrown"]

\* variant: JSON.parse without the try/catch
JsonParseUnchecked(raw) == IF raw.kind = "json" THEN raw.value ELSE Thrown

\* lines 44-50: JSON.parse throws on a text that is not JSON
safeJsonParse(raw) == IF raw.kind = "json" THEN raw.value ELSE NullV

\* obj.key, undefined when the value has no such property
Get(obj, key) == IF key \in DOMAIN obj THEN obj[key] ELSE Undef

\* x && typeof x === "object": an object or an array
IsObjectLike(v) == v.t \in {"obj", "arr"}

\* !x
Falsy(v) == v.t \in {"null", "undefined"} \/ v = NumV(0) \/ v = Txt(<<>>)

\* lines 139-166 with the languages the caller passes
ScriptedMessagesFor(tl) ==
    << Msg("assistant", Txt(<<"i", "1", tl>>)),
       Msg("assistant", Txt(<<"i", "2">>)),
       Msg("assistant", Txt(<<"q", "1", tl>>)) >>

\* lines 215-264: the hydration effect, run once after the first render
Hydrate ==
    /\ pc = "mount"
    /\ LET raw == storage
           parsedState == safeJsonParse(raw)
           fresh == /\ startOnboarding
                    /\ config' = config
           strOr(v, d) == IF IsString(v) THEN v.s[1] ELSE d
       IN IF raw.kind \in {"missing", "empty"}
          THEN fresh /\ pc' = "loaded"
          ELSE IF parsedState = Thrown
          THEN /\ pc' = "crashed"
               /\ UNCHANGED clientVars
          ELSE IF Falsy(parsedState) \/ ~IsObjectLike(parsedState)
          THEN fresh /\ pc' = "loaded"
          ELSE LET nl == strOr(Get(parsedState, "nativeLanguage"), config.nativeLanguage)
                   tl == strOr(Get(parsedState, "targetLanguage"), config.targetLanguage)
                   msgs == Get(parsedState, "messages")
                   hasMessages == msgs.t = "arr" /\ Len(msgs.items) > 0
                   cm == Get(parsedState, "conversationMode")
                   step == Get(parsedState, "onboardingStep")
                   pl == Get(parsedState, "placement")
                   a == Get(parsedState, "active")
                   pp == Get(parsedState, "pendingProposal")
                   problem == Get(parsedState, "problem")
               IN /\ config' = [nativeLanguage |-> nl, targetLanguage |-> tl]
                  /\ IF hasMessages
                     THEN /\ messages' = msgs.items
                          /\ conversationMode' = strOr(cm, "chat")
                          /\ onboardingStep' = IF step.t = "num" THEN step.v ELSE 2
                          /\ placement' =
                               IF ~Falsy(pl) /\ IsObjectLike(pl)
                               THEN [levelText |->
                                        IF IsString(Get(pl, "levelText"))
                                        THEN pl.levelText ELSE Txt(<<>>),
                                     focusText |->
                                        IF IsString(Get(pl, "focusText"))
                                        THEN pl.focusText ELSE Txt(<<>>)]
                               ELSE placement
                     ELSE /\ messages' = ScriptedMessagesFor(tl)
                          /\ conversationMode' = "onboarding"
                          /\ onboardingStep' = 0
                          /\ placement' = [levelText |-> Txt(<<>>),
                                           focusText |-> Txt(<<>>)]
                  /\ active' = IF ~Falsy(a) /\ IsObjectLike(a) THEN a
                               ELSE IF Falsy(a) /\ ~Falsy(problem)
                                       /\ IsObjectLike(problem)
                               THEN problem
                               ELSE NullV
                  /\ attempt' = IF Get(parsedState, "attempt") # Undef
                                THEN parsedState.attempt ELSE NullV
                  /\ pendingProposal' = IF ~Falsy(pp) /\ IsObjectLike(pp)
                                        THEN pp ELSE NullV
                  /\ grade' = NullV
                  /\ pc' = "loaded"
    /\ UNCHANGED <<loading, frame, netVars, serverVars>>
    /\ PersistFirstRender

\* lines 266-281: the persist effect of the render in which hydrated is
\* first true
persistLoaded ==
    /\ pc = "loaded"
    /\ pc' = "idle"
    /\ UNCHANGED <<clientVars, frame, netVars, serverVars>>
    /\ Persist

\* what localStorage may hold when the page is opened
StoredMessages ==
    {Undef, ArrV(<<>>), ScalarV,
     ArrV(<<Msg("assistant", Txt(<<"r">>)), Msg("user", Txt(<<"e", "s">>))>>)}

StoredObjects ==
    { [t |-> "obj", nativeLanguage |-> Txt(<<"English">>), targetLanguage |-> tl,
       messages |-> ms, conversationMode |-> cm, onboardingStep |-> st,
       placement |-> pl, active |-> a, attempt |-> att, pendingProposal |-> pp,
       problem |-> Undef] :
        tl \in {Txt(<<"French">>), NumV(5)},
        ms \in StoredMessages,
        cm \in {Txt(<<"chat">>), Undef},
        st \in {NumV(2), Undef},
        pl \in {Undef, [t |-> "obj", levelText |-> Txt(<<"A", "1">>), focusText |-> NumV(5)]},
        a \in {NullV, makeActiveFromProposal(PropFIB)},
        att \in {Undef, NullV, Txt(<<"e", "s">>)},
        pp \in {NullV, PropFR} }
    \cup { [t |-> "obj", nativeLanguage |-> Undef, targetLanguage |-> Undef,
            messages |-> Undef, conversationMode |-> Undef, onboardingStep |-> Undef,
            placement |-> Undef, active |-> Undef, attempt |-> Undef,
            pendingProposal |-> Undef, problem |-> pr] :
              pr \in {Undef, makeActiveFromProposal(PropFR)} }

StoredEntries ==
    {[kind |-> "missing"], [kind |-> "empty"], [kind |-> "garbage"]}
    \cup {Stored(v) : v \in {NullV, NumV(0), NumV(5), Txt(<<>>), Txt(<<"e", "s">>),
                             ArrV(<<>>), ArrV(<<NumV(5)>>)}}
    \cup {Stored(v) : v \in StoredObjects}

\* lines 87-100: the state of the first render
InitMount ==
    /\ config = DefaultConfig
    /\ conversationMode = "onboarding"
    /\ onboardingStep = 0
    /\ placement = [levelText |-> Txt(<<>>), focusText |-> Txt(<<>>)]
    /\ messages = <<>>
    /\ active = NullV
    /\ attempt = NullV
    /\ pendingProposal = NullV
    /\ grade = NullV
    /\ loading = FALSE
    /\ pc = "mount"
    /\ frame = NoFrame
    /\ req = NoReq
    /\ resp = NoResp
    /\ parsed = Undef
    /\ effectiveMode = "none"
    /\ userContent = NoContent
    /\ normalized = Undef
    /\ input = NoInput
    /\ storage \in StoredEntries

NextHydrate == Hydrate \/ persistLoaded

SpecHydrate == InitMount /\ [][NextHydrate]_vars

\* the stored entry is missing, is not JSON, or is not a JSON object
Unusable(entry) ==
    \/ entry.kind \in {"missing", "empty", "garbage"}
    \/ entry.kind = "json" /\ entry.value.t # "obj"

\* a fresh session at onboarding step 0
FreshOnboarding ==
    /\ conversationMode = "onboarding"
    /\ onboardingStep = 0
    /\ placement = [levelText |-> Txt(<<>>), focusText |-> Txt(<<>>)]
    /\ messages = ScriptedMessages
    /\ \A i \in 1..Len(messages) : messages[i].role = "assistant"
    /\ active = NullV /\ attempt = NullV
    /\ pendingProposal = NullV /\ grade = NullV
    /\ ~loading
    /\ config = DefaultConfig

\* C26: loading never throws and never leaves the page unloaded; when the
\* stored entry is missing, is not JSON or is not a JSON object, the load
\* ends with a fresh session at onboarding step 0: the scripted opening
\* messages, an empty placement, and no active exercise, attempt, pending
\* proposal or grade.
C26_LoadFallsBackToFresh ==
    [][ pc = "mount" =>
          /\ pc' = "loaded"
          /\ Unusable(storage) => FreshOnboarding'
      ]_vars

\* a page opened on an entry that is not JSON has loaded as a fresh session
C26_Witness ==
    /\ pc = "loaded"
    /\ storage.kind = "garbage"
    /\ FreshOnboarding

\* the cause of the clearing a step makes: the answer being applied, a
\* fully correct objective submit (which records its grade), or Clear
ClearCause ==
    IF pc # "idle" THEN "model_clear"
    ELSE IF IsObject(grade') THEN "objective_correct"
    ELSE "user_cleared"

\* C27: a post_clear request is sent only by a step that clears the active
\* exercise (Clear, a fully correct objective submit, or the applying of a
\* help answer with clear_active=1), it carries that exercise, which is
\* not null, and the outcome tag of its cause; a request made for a text
\* the user sends or for a review is never in post_clear mode.
C27_PostClearCarriesCause ==
    [][ /\ PostClearIssued =>
              /\ IsObject(active) /\ active' = NullV
              /\ req'.cleared = active
              /\ req'.clearedOutcome = Outcome(ClearCause)
              /\ pc = "idle" => (onClearActive \/ onSubmitExercise)
              /\ pc # "idle" =>
                    /\ pc \in {"sendText", "submit"}
                    /\ resp.t = "resp" /\ resp.ok
                    /\ resp.json.clear_active = N1
              /\ ClearCause = "objective_correct" =>
                    /\ grade'.allCorrect
                    /\ active.problem_type \in {"fill_in_blank", "multiple_choice"}
              /\ onClearActive => ClearCause = "user_cleared"
        /\ (onSend \/ onPollOption \/ onAcceptHelpOffer) => ~PostClearIssued
      ]_vars

\* the follow-up of a fully correct fill-in-the-blank answer is in flight
C27_Witness ==
    /\ pc = "postClear"
    /\ req.t = "req" /\ req.mode = "post_clear"
    /\ req.clearedOutcome = Outcome("objective_correct")
    /\ req.cleared = makeActiveFromProposal(PropFIB)
    /\ active = NullV
    /\ resp.t = "none"

\* the step in which a help answer with clear_active=1 is applied and the
\* follow-up call is sent
ChainStep == PostClearIssued /\ pc \in {"sendText", "submit"}

\* C28: in the help then post_clear chain, the step that sends the
\* post_clear call appends the help answer to the history, and the call's
\* history is that updated history: for a text the user sent, the history
\* of the help call (the prior history and the user's message) followed by
\* the help answer; the post_clear answer is then appended right after the
\* help answer, as a second assistant message.
C28_ChainHistory ==
    [][ /\ ChainStep =>
              /\ messages' = Append(messages, AssistantMsg(resp.json))
              /\ RoleContent(req'.messages) = RoleContent(messages')
              /\ RoleContent(req'.messages) =
                    Append(RoleContent(req.messages),
                           <<"assistant", resp.json.response>>)
              /\ pc = "sendText" =>
                    /\ req.messages[Len(req.messages)] = Msg("user", req.userText)
                    /\ req.messages = messages
        /\ (pc = "postClear" /\ frame.caller # "none" /\ pc' = "idle" /\ resp.ok
            /\ IsString(resp.json.response)) =>
              /\ messages[Len(messages)] = AssistantMsg(frame.result)
              /\ messages' = Append(messages, AssistantMsg(resp.json))
              /\ messages'[Len(messages')].role = "assistant"
      ]_vars

\* the answer of the follow-up call chained after a review has arrived
C28_Witness ==
    /\ pc = "postClear"
    /\ frame.caller = "submit"
    /\ resp.t = "resp" /\ resp.ok
    /\ IsString(resp.json.response)
    /\ messages[Len(messages)] = AssistantMsg(frame.result)
    /\ RoleContent(req.messages) = RoleContent(messages)
    /\ active = NullV

\* the message carries an enabled help offer for the exercise
OffersHelpFor(m, a) ==
    /\ IsObject(m.help_offer)
    /\ m.help_offer.enabled = N1
    /\ m.help_offer.exercise_id = a.exercise_id

\* a submit of an objective answer that is not fully correct
IncorrectSubmit ==
    /\ onSubmitExercise
    /\ active.problem_type \in {"fill_in_blank", "multiple_choice"}
    /\ IsObject(grade') /\ ~grade'.allCorrect

\* C29: a submit of an objective answer that is not fully correct keeps
\* the exercise, and appends one help-offer message for the exercise id
\* unless the last message already carries an enabled offer for that id,
\* in which case the history is left as it is; either way the history then
\* ends with exactly one offer for the exercise, and no history ever holds
\* two offers for the same exercise id next to each other.
C29_HelpOfferIdempotent ==
    [][ /\ IncorrectSubmit =>
              /\ active' = active
              /\ IF OffersHelpFor(messages[Len(messages)], active)
                 THEN messages' = messages
                 ELSE /\ Len(messages') = Len(messages) + 1
                      /\ SubSeq(messages', 1, Len(messages)) = messages
              /\ OffersHelpFor(messages'[Len(messages')], active)
              /\ messages'[Len(messages')].role = "assistant"
              /\ ~OffersHelpFor(messages'[Len(messages') - 1], active)
        /\ \A i \in 1..(Len(messages') - 1) :
              ~(/\ IsObject(messages'[i].help_offer)
                /\ messages'[i].help_offer = messages'[i + 1].help_offer)
      ]_vars

\* an answer that is not fully correct has been submitted and its offer
\* is the last message: a further submit of such an answer finds the offer
\* in place
C29_Witness ==
    /\ pc = "idle"
    /\ IsObject(active) /\ active.problem_type = "fill_in_blank"
    /\ attempt = [t |-> "obj", map |-> [k \in {"b1"} |-> Txt(<<"e", "s">>)]]
    /\ IsObject(grade) /\ ~grade.allCorrect
    /\ grade = gradeObjective(active, attempt)
    /\ OffersHelpFor(messages[Len(messages)], active)
    /\ ~OffersHelpFor(messages[Len(messages) - 1], active)

\* the canned text sent when a help offer is accepted (line 681)
HelpRequestText == Txt(<<"Y", "e", "s">>)

\* C30: accepting a help offer marks that offer message, and no other, as
\* accepted, appends the canned help request as the user's message, and
\* sends that one text as a request which, an exercise being active, is a
\* help-mode request for that exercise.
C30_AcceptMarksAndAsksHelp ==
    [][ onAcceptHelpOffer =>
          /\ \E idx \in 1..Len(messages) :
                /\ IsObject(messages[idx].help_offer)
                /\ messages'[idx] = [messages[idx] EXCEPT !.help_offer_accepted = N1]
                /\ \A j \in 1..Len(messages) : j # idx => messages'[j] = messages[j]
          /\ messages' = Append(SubSeq(messages', 1, Len(messages)),
                                Msg("user", HelpRequestText))
          /\ IssuesRequest
          /\ req'.userText = HelpRequestText
          /\ ActiveUsable(active) => (req'.mode = "help" /\ req'.active = active)
      ]_vars

\* the help request of an accepted offer is in flight and no offer in the
\* history is marked as accepted
C30_OfferNotMarked ==
    /\ pc = "sendText"
    /\ req.t = "req" /\ req.mode = "help"
    /\ req.userText = HelpRequestText
    /\ messages[Len(messages)] = Msg("user", HelpRequestText)
    /\ \E i \in 1..Len(messages) : IsObject(messages[i].help_offer)
    /\ \A i \in 1..Len(messages) : messages[i].help_offer_accepted # N1

(***************************************************************************)
(* page.js: the placement level (lines 169-179) on its own: the first      *)
(* scripted question answered with one of the texts below, the second      *)
(* with a fixed text, the placement call and its answer.                   *)
(***************************************************************************)
LevelTexts ==
    {Txt(<<"A", "1">>), Txt(<<"a", "2">>), Txt(<<"b", "1">>), Txt(<<"B", "2">>),
     Txt(<<"c", "1">>), Txt(<<"C", "2">>),
     Txt(<<"x", "a", "1">>), Txt(<<"a", "1", "x">>), Txt(<<"a", "1", "2">>),
     Txt(<<"_", "b", "2">>), Txt(<<"a", "3">>), Txt(<<"e", "s">>),
     Txt(<<"a", " ", "b", " ", "1">>),
     Txt(<<"(", "b", "2", ")">>), Txt(<<"a", "2", "-", "b", "1">>),
     Txt(<<"c", "1", "/", "c", "2">>),
     Txt(<<"l", "e", "v", "e", "l", ":", " ", "c", "2", ".">>),
     Txt(<<"b", "e", "g", "i", "n", "n", "e", "r">>),
     Txt(<<"B", "E", "G", "I", "N", "N", "E", "R">>),
     Txt(<<"I", "n", "t", "e", "r", "m", "e", "d", "i", "a", "t", "e">>),
     Txt(<<"a", "d", "v", "a", "n", "c", "e", "d">>),
     Txt(<<"b", "e", "g", "i", "n", "n", "e", "r", " ", "c", "1">>),
     Txt(<<"b", "e", "g", "i", "n", "n", "e", "r", "c", "1">>),
     Txt(<<"a", "d", "v", "a", "n", "c", "e", "d", " ",
           "b", "e", "g", "i", "n", "n", "e", "r">>),
     Txt(<<"a", "d", "v", "a", "n", "c", "e", "d", " ",
           "i", "n", "t", "e", "r", "m", "e", "d", "i", "a", "t", "e">>),
     Txt(<<"i", "n", "t", "e", "r", "m", "e", "d", "i", "a", "t", "e", " ",
           "b", "e", "g", "i", "n", "n", "e", "r">>)}

FocusText == Txt(<<"e", "s">>)

SendLevel == onboardingStep = 0 /\ \E text \in LevelTexts : Send(text)

SendFocus == onboardingStep = 1 /\ Send(FocusText)

NextLevel == SendLevel \/ SendFocus \/ POST \/ PlacementResume

SpecLevel == Init /\ [][NextLevel]_vars

CefrCodes ==
    {<<"A", "1">>, <<"A", "2">>, <<"B", "1">>, <<"B", "2">>, <<"C", "1">>, <<"C", "2">>}

\* w stands at position i of s with no letter, digit or underscore next to it
WholeWordAt(s, w, i) ==
    /\ i + Len(w) - 1 <= Len(s)
    /\ SubSeq(s, i, i + Len(w) - 1) = w
    /\ i > 1 => ~IsWordChar(s[i - 1])
    /\ i + Len(w) <= Len(s) => ~IsWordChar(s[i + Len(w)])

\* the codes that appear in s as whole words, in either case
CodesIn(s) ==
    {c \in CefrCodes : \E i \in 1..Len(s) : WholeWordAt(toUpperCase(s), c, i)}

HasKeyword(s, k) == includes(toLowerCase(s), k)

\* the level the precedence rule allows for the text s
LevelByPrecedence(s, level) ==
    IF CodesIn(s) # {} THEN level \in CodesIn(s)
    ELSE IF HasKeyword(s, <<"b", "e", "g", "i", "n", "n", "e", "r">>)
         THEN level = <<"A", "1">>
    ELSE IF HasKeyword(s, <<"i", "n", "t", "e", "r", "m", "e", "d", "i", "a", "t", "e">>)
         THEN level = <<"B", "1">>
    ELSE IF HasKeyword(s, <<"a", "d", "v", "a", "n", "c", "e", "d">>)
         THEN level = <<"C", "1">>
    ELSE level = <<"B", "1">>

\* C31: the level embedded in every placement request is the one the
\* precedence rule gives for the stored levelText: a CEFR code A1..C2
\* standing in it as a whole word (in either case), upper-cased; otherwise
\* A1 for the keyword beginner, B1 for intermediate, C1 for advanced,
\* looked for in that order; otherwise B1.
C31_LevelByPrecedence ==
    pc = "placement" =>
        \E level \in CefrCodes :
            /\ LevelByPrecedence(placement.levelText.s, level)
            /\ inferApproxLevel(placement.levelText.s) = level
            /\ req.userText =
                  Txt(<<"level", ":">> \o placement.levelText.s
                      \o <<"approx", ":">> \o level
                      \o <<"focus", ":">> \o placement.focusText.s)

\* a code wins over a keyword
C31_Witness ==
    /\ pc = "placement"
    /\ placement.levelText =
          Txt(<<"b", "e", "g", "i", "n", "n", "e", "r", " ", "c", "1">>)
    /\ includes(req.userText.s, <<"approx", ":", "C", "1">>)

(***************************************************************************)
(* Properties of turns: proposals, calls, failures, onboarding progress    *)
(***************************************************************************)
CarriesProposal(m) == IsObject(m.proposal) /\ m.proposal.enabled = N1

\* the proposal of the last message of msgs that carries an enabled one
MostRecentProposal(msgs) ==
    LET with == {i \in 1..Len(msgs) : CarriesProposal(msgs[i])}
    IN msgs[CHOOSE i \in with : \A j \in with : j <= i].proposal

\* C32: when a turn ends with an answer appended that carries an enabled
\* proposal, the pending proposal is that of the most recent message
\* carrying one; so after a help answer with clear_active = 1 and the
\* post_clear answer chained to it, both with an enabled proposal, the
\* pending proposal is the post_clear answer's.
C32_PendingIsMostRecentProposal ==
    [][ ( /\ pc # "idle" /\ pc' = "idle"
          /\ Len(messages') > Len(messages)
          /\ CarriesProposal(messages'[Len(messages')]) )
           => pendingProposal' = MostRecentProposal(messages')
      ]_vars

\* the chain has ended: the post_clear answer, appended last, proposes one
\* exercise and the pending proposal is the help answer's other one
C32_HelpProposalLeftPending ==
    /\ pc = "idle" /\ ~loading
    /\ Len(messages) >= 2
    /\ messages[Len(messages) - 1].proposal = PropFR
    /\ messages[Len(messages)].proposal = PropFIB
    /\ active = NullV
    /\ pendingProposal = PropFR

\* C33: one user action leads to at most two calls.  A request is sent
\* either from idle, by the user's action, or as the post_clear follow-up
\* of the chat or help call of that action; while a post_clear call or the
\* placement call is outstanding no request is sent; and the step that
\* applies a post_clear answer, whatever its clear_active, ends the turn,
\* sends nothing and leaves active, attempt and grade as they are.
C33_AtMostTwoCalls ==
    [][ /\ IssuesRequest => pc \in {"idle", "sendText", "submit"}
        /\ (IssuesRequest /\ pc # "idle") =>
              (pc' = "postClear" /\ req'.mode = "post_clear")
        /\ (IssuesRequest /\ pc = "idle") => req.t = "none"
        /\ pc \in {"postClear", "placement"} => ~IssuesRequest
        /\ (pc = "postClear" /\ pc' # pc) =>
              /\ pc' = "idle" /\ req' = NoReq /\ ~loading'
              /\ UNCHANGED <<active, attempt, grade>>
      ]_vars

\* the second call of a turn has been answered with clear_active = 1
C33_Witness ==
    /\ pc = "postClear"
    /\ frame.caller = "sendText"
    /\ resp.t = "resp" /\ resp.ok
    /\ effectiveMode = "post_clear"
    /\ resp.json.clear_active = N1

(***************************************************************************)
(* Progress.  Every call eventually returns or fails (weak fairness of     *)
(* POST), and the event loop runs the continuation of a handler whose      *)
(* awaited call has been answered (weak fairness of the resume steps).     *)
(* Nothing is assumed of the user.                                         *)
(***************************************************************************)
Fairness ==
    /\ WF_vars(POST)
    /\ WF_vars(PlacementResume)
    /\ WF_vars(SendTextResume)
    /\ WF_vars(SubmitResume)
    /\ WF_vars(PostClearResume)

\* the turns of a session: every action that starts a call, what leads to
\* it (starting a proposal, filling a blank), the server and the
\* continuations
NextLive ==
    \/ onSend
    \/ onPollOption
    \/ onAcceptHelpOffer
    \/ onStartProposal
    \/ onClearActive
    \/ onSubmitExercise
    \/ onBlankChange
    \/ POST
    \/ PlacementResume
    \/ SendTextResume
    \/ SubmitResume
    \/ PostClearResume

SpecLive == Init /\ [][NextLive]_vars /\ Fairness

\* no call is outstanding and the user's actions are accepted
Accepting == ~loading /\ pc = "idle" /\ req = NoReq

\* C34: loading is set only while a call is outstanding, and whenever it
\* is set the turn eventually ends with loading reset and the user's
\* actions accepted again: after a successful answer, after a failed one,
\* and after the help then post_clear chain.
C34_LoadingEventuallyReset ==
    /\ [](loading => (req.t = "req" /\ pc # "idle"))
    /\ loading ~> Accepting
    /\ (pc = "postClear" /\ frame.caller # "none") ~> Accepting
    /\ (loading /\ resp.t = "resp" /\ ~resp.ok) ~> Accepting

\* a turn that brought two answers after the user's message has ended and
\* the session accepts the user's actions again
C34_Witness ==
    /\ Accepting
    /\ Len(messages) >= 3
    /\ messages[Len(messages) - 2].role = "user"
    /\ messages[Len(messages) - 1].role = "assistant"
    /\ messages[Len(messages)].role = "assistant"
    /\ messages[Len(messages)] # SecondQuestion
    /\ messages[Len(messages)] # ErrorMsg
    /\ active = NullV
    /\ conversationMode = "chat"

\* a step of sendText that sends the chat, help or placement request
SendsTurnRequest == IssuesRequest /\ pc = "idle" /\ pc' \in {"sendText", "placement"}

\* C35: a chat, help or placement turn of sendText whose call fails.  The
\* step that sends the request appends the user's message to the history
\* and changes none of active, attempt, pendingProposal, grade,
\* conversationMode and onboardingStep; while the call is outstanding none
\* of these changes but attempt, which the user may still type into; the
\* step that handles the failure appends one error message to the history
\* of the request and changes none of them.  So a failed placement call
\* leaves the session in onboarding step 1.
C35_FailedTurn ==
    [][ /\ SendsTurnRequest =>
              /\ Len(messages') = Len(messages) + 1
              /\ SubSeq(messages', 1, Len(messages)) = messages
              /\ messages'[Len(messages')].role = "user"
              /\ req'.messages = messages'
              /\ UNCHANGED <<active, attempt, pendingProposal, grade,
                             conversationMode, onboardingStep>>
        /\ (pc \in {"sendText", "placement"} /\ pc' = pc) =>
              UNCHANGED <<messages, active, pendingProposal, grade,
                          conversationMode, onboardingStep>>
        /\ (pc \in {"sendText", "placement"} /\ resp.t = "resp" /\ ~resp.ok
            /\ pc' # pc) =>
              /\ messages = req.messages
              /\ messages' = Append(messages, ErrorMsg)
              /\ pc' = "idle" /\ ~loading'
              /\ UNCHANGED <<active, attempt, pendingProposal, grade,
                             conversationMode, onboardingStep>>
        /\ (pc = "placement" /\ resp.t = "resp" /\ ~resp.ok) =>
              /\ conversationMode = "onboarding" /\ onboardingStep = 1
              /\ conversationMode' = "onboarding" /\ onboardingStep' = 1
      ]_vars

\* the help call of a message sent about the active exercise has failed
C35_Witness ==
    /\ pc = "sendText"
    /\ resp.t = "resp" /\ ~resp.ok
    /\ req.mode = "help"
    /\ ActiveUsable(active)
    /\ IsObject(pendingProposal)
    /\ messages[Len(messages)].role = "user"

ModeMatchesStep ==
    /\ conversationMode \in {"onboarding", "chat"}
    /\ onboardingStep \in {0, 1, 2}
    /\ conversationMode = "onboarding" <=> onboardingStep \in {0, 1}
    /\ conversationMode = "chat" <=> onboardingStep = 2

\* C36: in every state of a session that started fresh, conversationMode
\* is onboarding exactly when onboardingStep is 0 or 1 and chat exactly
\* when it is 2, and the only step that lowers onboardingStep is New
\* conversation.
C36_ModeMatchesStep ==
    /\ []ModeMatchesStep
    /\ [][onboardingStep' < onboardingStep => onNewConversation]_vars
    /\ [][onboardingStep' > onboardingStep =>
             \/ onboardingStep = 0 /\ onboardingStep' = 1
             \/ onboardingStep = 1 /\ onboardingStep' = 2 /\ pc = "placement"]_vars

\* onboarding is over and an exercise has been started
C36_Witness ==
    /\ conversationMode = "chat" /\ onboardingStep = 2
    /\ pc = "idle"
    /\ ActiveUsable(active)
    /\ placement.focusText # Txt(<<>>)

\* the proposal p can be started and is not the exercise in the slot
Replaces(p) ==
    /\ ~loading
    /\ IsObject(active)
    /\ p.enabled = N1 /\ Truthy(p.problem_type)
    /\ p.proposal_id # active.exercise_id

\* C37: starting a proposal while another exercise is active puts the
\* proposal's exercise in the slot in place of the old one, sets attempt to
\* the empty value of the new exercise's type and grade to null, and sends
\* no request: nothing is in flight before or after the step and the
\* history is unchanged.
C37_StartReplacesWithoutCall ==
    [][ \A p \in ShownProposals :
          (Replaces(p) /\ StartProposal(p)) =>
             /\ IsObject(active') /\ active'.enabled = N1
             /\ active'.exercise_id = p.proposal_id
             /\ active'.problem_type = p.problem_type
             /\ attempt' = EmptyAttemptFor(active')
             /\ grade' = NullV
             /\ ~IssuesRequest
             /\ req = NoReq /\ req' = NoReq
             /\ pc' = "idle" /\ ~loading'
             /\ UNCHANGED <<messages, resp, serverVars>>
      ]_vars

\* a graded exercise is active and another proposal can be started
C37_Witness ==
    /\ pc = "idle"
    /\ ActiveUsable(active)
    /\ IsObject(grade)
    /\ attempt # EmptyAttemptFor(active)
    /\ \E p \in ShownProposals : Replaces(p)

(***************************************************************************)
(* The history of the model call                                           *)
(***************************************************************************)
\* the history part of the input: what stands between the system prompt
\* and the user content
SentHistory == SubSeq(input, 2, Len(input) - 1)

\* an entry of the body's messages that the history takes over
Qualifies(m) ==
    /\ "t" \notin DOMAIN m
    /\ "role" \in DOMAIN m /\ m.role \in {"user", "assistant"}
    /\ "content" \in DOMAIN m /\ IsString(m.content)

\* the k-th entry of msgs that qualifies
NthQualifying(msgs, k) ==
    LET idx == {i \in 1..Len(msgs) : Qualifies(msgs[i])}
    IN msgs[CHOOSE i \in idx : Cardinality({j \in idx : j <= i}) = k]

\* C38: whenever the route has called the model for the request it has
\* answered, the history passed to the model holds, in order, one entry for each message of the request whose role is user or
\* assistant and whose content is a string, and each entry holds the role
\* and the content of that message and nothing else: no proposal, poll or
\* help offer of a history message, hence no answer key of an earlier
\* proposal, is in it.
C38_HistoryIsRoleAndContent ==
    (resp.t = "resp" /\ input # NoInput) =>
        /\ input[1].role = "system"
        /\ input[Len(input)] = [role |-> "user", content |-> userContent]
        /\ Len(SentHistory) =
              Cardinality({i \in 1..Len(req.messages) : Qualifies(req.messages[i])})
        /\ \A k \in 1..Len(SentHistory) :
              /\ DOMAIN SentHistory[k] = {"role", "content"}
              /\ SentHistory[k].role \in {"user", "assistant"}
              /\ IsString(SentHistory[k].content)
              /\ SentHistory[k].role = NthQualifying(req.messages, k).role
              /\ SentHistory[k].content = NthQualifying(req.messages, k).content

\* the model has been called with the history of a request one of whose
\* messages carries a proposal with its answer keys
C38_Witness ==
    /\ input # NoInput
    /\ resp.t = "resp" /\ resp.ok
    /\ Len(SentHistory) = 3
    /\ \E i \in 1..Len(req.messages) :
          /\ Qualifies(req.messages[i])
          /\ IsObject(req.messages[i].proposal)
          /\ HasAnswerKeys(req.messages[i].proposal)
          /\ IsObject(req.messages[i].poll)

(***************************************************************************)
(* Reloading the page.  The page can be closed and opened again at any     *)
(* moment of a session: the React state and the suspended handler are      *)
(* gone, an answer still under way is never applied, and the new page      *)
(* starts from the useState defaults (page.js lines 87-100) and the        *)
(* localStorage entry the old page left.                                   *)
(***************************************************************************)
\* the page has run the effects of its first render
Interactive == pc \notin {"mount", "loaded", "crashed"}

Reload ==
    /\ Interactive
    /\ config' = DefaultConfig
    /\ conversationMode' = "onboarding"
    /\ onboardingStep' = 0
    /\ placement' = [levelText |-> Txt(<<>>), focusText |-> Txt(<<>>)]
    /\ messages' = <<>>
    /\ active' = NullV
    /\ attempt' = NullV
    /\ pendingProposal' = NullV
    /\ grade' = NullV
    /\ loading' = FALSE
    /\ pc' = "mount"
    /\ frame' = NoFrame
    /\ req' = NoReq
    /\ resp' = NoResp
    /\ ServerIdle
    /\ storage' = storage

\* the user acts on a loaded page only: the effects of the first render run
\* before any event is handled
NextReload ==
    \/ Interactive /\ onSend
    \/ Interactive /\ onPollOption
    \/ Interactive /\ onAcceptHelpOffer
    \/ Interactive /\ onStartProposal
    \/ Interactive /\ onClearActive
    \/ Interactive /\ onSubmitExercise
    \/ Interactive /\ onBlankChange
    \/ Interactive /\ onConfigChange
    \/ POST
    \/ PlacementResume
    \/ SendTextResume
    \/ SubmitResume
    \/ PostClearResume
    \/ Reload
    \/ Hydrate
    \/ persistLoaded

SpecReload == Init /\ [][NextReload]_vars

\* the entry holds a saved session with a non-empty history
HoldsSession(entry) ==
    /\ entry.kind = "json"
    /\ entry.value.t = "obj"
    /\ entry.value.messages.t = "arr"
    /\ Len(entry.value.messages.items) > 0

\* the session is the one the entry holds
RestoredFrom(entry) ==
    /\ Txt(<<config.nativeLanguage>>) = entry.value.nativeLanguage
    /\ Txt(<<config.targetLanguage>>) = entry.value.targetLanguage
    /\ messages = entry.value.messages.items
    /\ Txt(<<conversationMode>>) = entry.value.conversationMode
    /\ onboardingStep = entry.value.onboardingStep.v
    /\ placement.levelText = entry.value.placement.levelText
    /\ placement.focusText = entry.value.placement.focusText
    /\ active = entry.value.active
    /\ attempt = entry.value.attempt
    /\ pendingProposal = entry.value.pendingProposal

\* C39: once the page is loaded the stored entry is the saved session, with
\* a non-empty history, and closing the page keeps it; opening the page
\* on it restores nativeLanguage, targetLanguage, messages,
\* conversationMode, onboardingStep, placement, active, attempt and
\* pendingProposal as saved and leaves grade null; and neither the load
\* nor the first save after it changes the entry: it is never overwritten
\* with the defaults of the first render.
C39_RoundTrip ==
    /\ [](Interactive => (HoldsSession(storage) /\ RestoredFrom(storage)
                     /\ storage = JsonStringify(Snapshot)))
    /\ [][ /\ Reload => (storage' = storage /\ HoldsSession(storage))
           /\ (pc = "mount" /\ pc' # pc /\ HoldsSession(storage)) =>
                 /\ pc' = "loaded"
                 /\ RestoredFrom(storage)'
                 /\ grade' = NullV /\ ~loading'
                 /\ storage' = storage
           /\ (pc = "loaded" /\ pc' # pc /\ HoldsSession(storage)) =>
                 /\ pc' = "idle"
                 /\ storage' = storage
                 /\ UNCHANGED clientVars
      ]_vars

\* a page opened again on a session with a started, partly filled exercise
\* and a pending proposal
C39_Witness ==
    /\ pc = "loaded"
    /\ HoldsSession(storage)
    /\ conversationMode = "chat" /\ onboardingStep = 2
    /\ ActiveUsable(active)
    /\ attempt # EmptyAttemptFor(active)
    /\ IsObject(pendingProposal)
    /\ grade = NullV
    /\ config # DefaultConfig
    /\ messages[Len(messages)].role = "user"

====
